---- MODULE Spec2Model ----
(***************************************************************************)
(* SchemaIPC: the descriptor registry (schema/schema.go), the framed       *)
(* connection loop (Conn.nextMessage, Server.HandleConnection) and the     *)
(* message codec (encoder.Encode, encoder.Reader.Decode).                  *)
(*                                                                         *)
(* The specifications share the variables:                                 *)
(*   SpecRegistry - any sequence of RegisterInternal / RegisterSchema      *)
(*                  calls on one registry, starting from the zero value;   *)
(*   Spec         - one connection task of a server whose registry was     *)
(*                  installed by Server.Init, reading the bytes a peer     *)
(*                  writes (FairSpec adds the scheduling of the task);     *)
(*   SpecCodec    - one caller of the codec that encodes a record with a   *)
(*                  descriptor and decodes a body with it;                 *)
(*   SpecCache    - goroutines that ask computeFieldMap for the field maps *)
(*                  of struct types at the same time.                      *)
(***************************************************************************)
EXTENDS Integers, Sequences, FiniteSets, TLC

VARIABLES
    schema,     \* Server.Schema: the user schema of the application
    reg,        \* MessageDescriptorRegistry (Server.Registry)
    calls,      \* history: the registry calls made so far, with their errors
    prev,       \* history: the registry as it was before the last call
    policy,     \* Server.MessageOverflowPolicy
    state,      \* Conn.state
    pc,         \* position of the connection task: "header", "discard", "payload", "done"
    hdr,        \* the header nextMessage is working on
    inbuf,      \* every byte the peer has written to the stream so far
    rpos,       \* number of bytes of inbuf the connection has consumed
    peerClosed, \* the peer has closed its end: reads see EOF after inbuf
    closed,     \* the deferred netConn.Close() has run
    err,        \* the error that ended the message loop ("nil" while it runs)
    outbuf,     \* every byte the server has written to the peer
    log,        \* history: one entry per nextMessage call
    sent,       \* history: the frames the peer wrote, with their offsets
    msgDesc,    \* the MessageDescriptor given to Encode and to NewReader
    record,     \* the struct value given to Encode
    encoded,    \* what Encode returned: bytes and error
    body,       \* the buffer given to NewReader
    target,     \* the struct the pointer given to Decode points to
    decoded,    \* what Decode returned, with the reader's cursor
    phase,      \* position of the codec's caller
    typeCache,  \* the sync.Map of computeFieldMap: struct type to field map
    routine     \* the goroutines calling computeFieldMap: position, locals, result

vars == <<schema, reg, calls, prev, policy, state, pc, hdr, inbuf, rpos, peerClosed,
          closed, err, outbuf, log, sent, msgDesc, record, encoded, body,
          target, decoded, phase, typeCache, routine>>

regVars == <<schema, reg, calls, prev>>
connVars == <<policy, state, pc, hdr, inbuf, rpos, peerClosed, closed, err,
              outbuf, log, sent>>
codecVars == <<msgDesc, record, encoded, body, target, decoded, phase>>
cacheVars == <<typeCache, routine>>

----------------------------------------------------------------------------
(* Bounds of the model *)

MaxSchemaLen == 2       \* messages in the user schema
MaxCalls == 3           \* registry calls in one behaviour of SpecRegistry
MaxFrames == 2          \* frames (whole or truncated) the peer writes
MaxMessageSize == 2     \* Server.MaxMessageSize of the modelled server

----------------------------------------------------------------------------
(* schema/schema.go: value types *)

InboundMessage == 0
OutboundMessage == 1
DuplexMessage == 2

Directions == {InboundMessage, OutboundMessage, DuplexMessage}

DirectionToString(d) ==
    CASE d = InboundMessage -> "inbound"
      [] d = OutboundMessage -> "outbound"
      [] d = DuplexMessage -> "duplex"
      [] OTHER -> ""

TypeFixedBinary == 0
TypeDynamicBinary == 1
TypeLongBinary == 2
TypeUInt64 == 3
TypeInt64 == 4
TypeUInt32 == 5
TypeInt32 == 6
TypeUInt16 == 7
TypeInt16 == 8
TypeObject == 9
TypeArray == 10

\* MessageField.Extra is an `any`: a value together with its dynamic type.
NilExtra == [kind |-> "nil"]
IntExtra(n) == [kind |-> "int", n |-> n]
FieldExtra(field) == [kind |-> "MessageField", field |-> field]
MessageExtra(message) == [kind |-> "SchemaMessage", message |-> message]
DescriptorExtra(descriptor) == [kind |-> "MessageDescriptor", descriptor |-> descriptor]

MessageField(name, type, extra, optional) ==
    [Name |-> name, Type |-> type, Extra |-> extra, Optional |-> optional]

SchemaMessage(direction, name, fields) ==
    [Direction |-> direction, Name |-> name, Fields |-> fields]

CountOptional(m) ==
    Cardinality({i \in DOMAIN m.Fields : m.Fields[i].Optional})

Schema(messages) == [Messages |-> messages]

InternalSchema == Schema(
    << SchemaMessage(InboundMessage, "Hello",
          << MessageField("minVersion", TypeInt32, NilExtra, FALSE),
             MessageField("currVersion", TypeInt32, NilExtra, FALSE) >>),
       SchemaMessage(OutboundMessage, "Hello",
          << MessageField("minVersion", TypeInt32, NilExtra, FALSE),
             MessageField("currVersion", TypeInt32, NilExtra, FALSE),
             MessageField("schema", TypeLongBinary, NilExtra, FALSE),
             MessageField("descriptorRegistry", TypeLongBinary, NilExtra, FALSE) >>),
       SchemaMessage(DuplexMessage, "Ping",
          << MessageField("timestamp", TypeInt64, NilExtra, FALSE) >>) >>)

MessageDescriptor(id, message, internal) ==
    [ID |-> id, Message |-> message, OptionalCount |-> CountOptional(message),
     Internal |-> internal, Handler |-> "nil"]

\* The number of bytes of the optional bitmap: OptionalCount / 8, rounded up.
OptFlagLength(m) ==
    (m.OptionalCount \div 8) + (IF m.OptionalCount % 8 # 0 THEN 1 ELSE 0)

----------------------------------------------------------------------------
(* schema/schema.go: the registry *)

ErrAlreadyRegistered == "schema is already registered"
ErrInternalNotRegistered == "internal schema is not registered"

EmptyMap == <<>>

\* The zero value of MessageDescriptorRegistry. A nil map and an empty map
\* answer every lookup alike, so both are the empty function here.
NewRegistry ==
    [idCounter |-> 0, RegisteredUser |-> FALSE, RegisteredInternal |-> FALSE,
     Descriptors |-> EmptyMap, UserSignatureMap |-> EmptyMap,
     InternalSignatureMap |-> EmptyMap]

ensureDescriptors(r) ==
    IF r.Descriptors = EmptyMap
    THEN [r EXCEPT !.Descriptors = EmptyMap, !.UserSignatureMap = EmptyMap,
                   !.InternalSignatureMap = EmptyMap]
    ELSE r

Signature(direction, name) == DirectionToString(direction) \o " " \o name

\* The map is changed in place: the result carries it together with the error.
registerSignature(signatureMap, direction, name, id) ==
    LET signature == Signature(direction, name)
    IN IF signature \in DOMAIN signatureMap
       THEN [m |-> signatureMap, err |-> "duplicate signature: " \o signature]
       ELSE [m |-> (signature :> id) @@ signatureMap, err |-> "nil"]

\* handleSignatures registering a Duplex message under one "duplex" signature.
handleSignatures_DuplexOnce(signatureMap, message, id) ==
    registerSignature(signatureMap, message.Direction, message.Name, id)

handleSignatures(signatureMap, message, id) ==
    IF message.Direction = DuplexMessage
    THEN LET a == registerSignature(signatureMap, InboundMessage, message.Name, id)
         IN IF a.err # "nil" THEN a
            ELSE registerSignature(a.m, OutboundMessage, message.Name, id)
    ELSE registerSignature(signatureMap, message.Direction, message.Name, id)

\* The loop of RegisterSchema taking the ID after the increment.
RECURSIVE registerUserMessages_IDAfterIncrement(_, _, _)
registerUserMessages_IDAfterIncrement(r, messages, i) ==
    IF i > Len(messages) THEN [reg |-> r, err |-> "nil"]
    ELSE LET id == r.idCounter + 1
             s == handleSignatures(r.UserSignatureMap, messages[i], id)
             r1 == [r EXCEPT !.idCounter = id,
                             !.Descriptors = (id :> MessageDescriptor(id, messages[i], FALSE)) @@ @,
                             !.UserSignatureMap = s.m]
         IN IF s.err # "nil" THEN [reg |-> r1, err |-> s.err]
            ELSE registerUserMessages_IDAfterIncrement(r1, messages, i + 1)

\* The loop of RegisterSchema storing the descriptor after the signatures.
RECURSIVE registerUserMessages_StoreAfterSignatures(_, _, _)
registerUserMessages_StoreAfterSignatures(r, messages, i) ==
    IF i > Len(messages) THEN [reg |-> r, err |-> "nil"]
    ELSE LET id == r.idCounter
             s == handleSignatures(r.UserSignatureMap, messages[i], id)
             r0 == [r EXCEPT !.idCounter = id + 1, !.UserSignatureMap = s.m]
             r1 == [r0 EXCEPT !.Descriptors = (id :> MessageDescriptor(id, messages[i], FALSE)) @@ @]
         IN IF s.err # "nil" THEN [reg |-> r0, err |-> s.err]
            ELSE registerUserMessages_StoreAfterSignatures(r1, messages, i + 1)

\* The loop of RegisterSchema over schema.Messages, from message i on.
RECURSIVE registerUserMessages(_, _, _)
registerUserMessages(r, messages, i) ==
    IF i > Len(messages) THEN [reg |-> r, err |-> "nil"]
    ELSE LET id == r.idCounter
             s == handleSignatures(r.UserSignatureMap, messages[i], id)
             r1 == [r EXCEPT !.idCounter = id + 1,
                             !.Descriptors = (id :> MessageDescriptor(id, messages[i], FALSE)) @@ @,
                             !.UserSignatureMap = s.m]
         IN IF s.err # "nil" THEN [reg |-> r1, err |-> s.err]
            ELSE registerUserMessages(r1, messages, i + 1)

RegisterSchema(r, userSchema) ==
    IF r.RegisteredUser THEN [reg |-> r, err |-> ErrAlreadyRegistered]
    ELSE IF ~r.RegisteredInternal THEN [reg |-> r, err |-> ErrInternalNotRegistered]
    ELSE LET res == registerUserMessages(ensureDescriptors(r), userSchema.Messages, 1)
         IN IF res.err # "nil" THEN res
            ELSE [reg |-> [res.reg EXCEPT !.RegisteredUser = TRUE], err |-> "nil"]

\* The loop of RegisterInternal over InternalSchema.Messages, from message i on.
RECURSIVE registerInternalMessages(_, _, _)
registerInternalMessages(r, messages, i) ==
    IF i > Len(messages) THEN [reg |-> r, err |-> "nil"]
    ELSE LET id == r.idCounter
             s == handleSignatures(r.InternalSignatureMap, messages[i], id)
             r1 == [r EXCEPT !.idCounter = id + 1,
                             !.Descriptors = (id :> MessageDescriptor(id, messages[i], TRUE)) @@ @,
                             !.InternalSignatureMap = s.m]
         IN IF s.err # "nil" THEN [reg |-> r1, err |-> s.err]
            ELSE registerInternalMessages(r1, messages, i + 1)

\* RegisterInternal without the check of the two flags.
RegisterInternal_NoGuard(r) ==
    LET res == registerInternalMessages(ensureDescriptors(r), InternalSchema.Messages, 1)
    IN IF res.err # "nil" THEN res
       ELSE [reg |-> [res.reg EXCEPT !.RegisteredInternal = TRUE], err |-> "nil"]

RegisterInternal(r) ==
    IF r.RegisteredInternal \/ r.RegisteredUser
    THEN [reg |-> r, err |-> ErrAlreadyRegistered]
    ELSE LET res == registerInternalMessages(ensureDescriptors(r), InternalSchema.Messages, 1)
         IN IF res.err # "nil" THEN res
            ELSE [reg |-> [res.reg EXCEPT !.RegisteredInternal = TRUE], err |-> "nil"]

----------------------------------------------------------------------------
(* The user schemas of the registry specification *)

Names == {"Hello", "Msg"}

UserMessages == {SchemaMessage(d, n, <<>>) : d \in Directions, n \in Names}

Schemas == {Schema(ms) : ms \in UNION {[1..k -> UserMessages] : k \in 0..MaxSchemaLen}}

----------------------------------------------------------------------------
(* const.go, part_003: the server and the connection *)

MessageOverflowDiscard == 0
MessageOverflowTerminate == 1

ConnWaitHello == 0
ConnEstablished == 1

ConnStates == {ConnWaitHello, ConnEstablished}

ErrMsgLength == "exceeded message limit"
ErrSentInvalidDirection == "client attempted to send a outbound message"
ErrInvalidDescriptor == "client attempted to send a unknown message"
ErrEOF == "EOF"
ErrUnexpectedEOF == "unexpected EOF"
ErrHandler == "handler error"

nullHeader == [PacketLength |-> 0, MessageType |-> 0]

\* binary.LittleEndian.Uint32
Uint32(b) == b[1] + b[2] * 256 + b[3] * 65536 + b[4] * 16777216

\* The peer's side of the header: a u32 as four bytes, least significant first.
PutUint32(v) ==
    << v % 256, (v \div 256) % 256, (v \div 65536) % 256, (v \div 16777216) % 256 >>

Min(a, b) == IF a < b THEN a ELSE b

Avail == Len(inbuf) - rpos

\* Server.Init: the internal set, then the user schema; log.Fatal on an error.
ServerInit(userSchema) == RegisterSchema(RegisterInternal(NewRegistry).reg, userSchema)

\* The application binds its handlers in the exported Descriptors map.
BindHandlers(r, ids) ==
    [r EXCEPT !.Descriptors =
        [id \in DOMAIN @ |-> IF id \in ids THEN [@[id] EXCEPT !.Handler = "bound"]
                                            ELSE @[id]]]

\* The user schema of the modelled server: one message of each direction.
ServedSchema == Schema(
    << SchemaMessage(InboundMessage, "Put", <<>>),
       SchemaMessage(OutboundMessage, "Event", <<>>),
       SchemaMessage(DuplexMessage, "Sync", <<>>) >>)

\* The sets of descriptor IDs the application binds a handler to: none, as
\* the registry leaves them, or inbound Hello and the first user message.
HandlerSets == {{}, {0, 3}}

\* io.ReadFull of the 8 header bytes, once it can return.
readHeader ==
    IF Avail >= 8
    THEN [header |-> [PacketLength |-> Uint32(SubSeq(inbuf, rpos + 1, rpos + 4)),
                      MessageType |-> Uint32(SubSeq(inbuf, rpos + 5, rpos + 8))],
          n |-> 8, err |-> "nil"]
    ELSE [header |-> nullHeader, n |-> Avail,
          err |-> IF Avail = 0 THEN ErrEOF ELSE ErrUnexpectedEOF]

\* checkHeader without the WaitHello guard.
checkHeader_NoStateGuard(st, header) ==
    IF header.PacketLength > MaxMessageSize /\ policy = MessageOverflowDiscard
    THEN [kind |-> "overflow", err |-> "nil", out |-> <<>>]
    ELSE IF header.PacketLength > MaxMessageSize /\ policy = MessageOverflowTerminate
    THEN [kind |-> "return", err |-> ErrMsgLength, out |-> <<>>]
    ELSE IF header.MessageType \notin DOMAIN reg.Descriptors
    THEN [kind |-> "return", err |-> ErrInvalidDescriptor, out |-> <<>>]
    ELSE LET descriptor == reg.Descriptors[header.MessageType]
         IN IF descriptor.Message.Direction = OutboundMessage
            THEN [kind |-> "return", err |-> ErrSentInvalidDirection, out |-> <<>>]
            ELSE IF descriptor.Handler = "nil"
            THEN [kind |-> "discard", err |-> "nil", out |-> <<>>]
            ELSE [kind |-> "payload", err |-> "nil", out |-> <<>>]

\* checkHeader with the WaitHello guard ahead of the direction guard.
checkHeader_StateGuardFirst(st, header) ==
    IF header.PacketLength > MaxMessageSize /\ policy = MessageOverflowDiscard
    THEN [kind |-> "overflow", err |-> "nil", out |-> <<>>]
    ELSE IF header.PacketLength > MaxMessageSize /\ policy = MessageOverflowTerminate
    THEN [kind |-> "return", err |-> ErrMsgLength, out |-> <<>>]
    ELSE IF header.MessageType \notin DOMAIN reg.Descriptors
    THEN [kind |-> "return", err |-> ErrInvalidDescriptor, out |-> <<>>]
    ELSE LET descriptor == reg.Descriptors[header.MessageType]
         IN IF ~descriptor.Internal /\ st = ConnWaitHello
            THEN [kind |-> "return", err |-> ErrInvalidDescriptor, out |-> <<>>]
            ELSE IF descriptor.Message.Direction = OutboundMessage
            THEN [kind |-> "return", err |-> ErrSentInvalidDirection, out |-> <<>>]
            ELSE IF descriptor.Handler = "nil"
            THEN [kind |-> "discard", err |-> "nil", out |-> <<>>]
            ELSE [kind |-> "payload", err |-> "nil", out |-> <<>>]

\* checkHeader dropping the body of a frame of unknown ID instead of failing.
checkHeader_UnknownIgnored(st, header) ==
    IF header.PacketLength > MaxMessageSize /\ policy = MessageOverflowDiscard
    THEN [kind |-> "overflow", err |-> "nil", out |-> <<>>]
    ELSE IF header.PacketLength > MaxMessageSize /\ policy = MessageOverflowTerminate
    THEN [kind |-> "return", err |-> ErrMsgLength, out |-> <<>>]
    ELSE IF header.MessageType \notin DOMAIN reg.Descriptors
    THEN [kind |-> "discard", err |-> "nil", out |-> <<>>]
    ELSE LET descriptor == reg.Descriptors[header.MessageType]
         IN IF descriptor.Message.Direction = OutboundMessage
            THEN [kind |-> "return", err |-> ErrSentInvalidDirection, out |-> <<>>]
            ELSE IF ~descriptor.Internal /\ st = ConnWaitHello
            THEN [kind |-> "return", err |-> ErrInvalidDescriptor, out |-> <<>>]
            ELSE IF descriptor.Handler = "nil"
            THEN [kind |-> "discard", err |-> "nil", out |-> <<>>]
            ELSE [kind |-> "payload", err |-> "nil", out |-> <<>>]

\* checkHeader treating a frame of exactly MaxMessageSize as overflow.
checkHeader_OverflowAtLimit(st, header) ==
    IF header.PacketLength >= MaxMessageSize /\ policy = MessageOverflowDiscard
    THEN [kind |-> "overflow", err |-> "nil", out |-> <<>>]
    ELSE IF header.PacketLength >= MaxMessageSize /\ policy = MessageOverflowTerminate
    THEN [kind |-> "return", err |-> ErrMsgLength, out |-> <<>>]
    ELSE IF header.MessageType \notin DOMAIN reg.Descriptors
    THEN [kind |-> "return", err |-> ErrInvalidDescriptor, out |-> <<>>]
    ELSE LET descriptor == reg.Descriptors[header.MessageType]
         IN IF descriptor.Message.Direction = OutboundMessage
            THEN [kind |-> "return", err |-> ErrSentInvalidDirection, out |-> <<>>]
            ELSE IF ~descriptor.Internal /\ st = ConnWaitHello
            THEN [kind |-> "return", err |-> ErrInvalidDescriptor, out |-> <<>>]
            ELSE IF descriptor.Handler = "nil"
            THEN [kind |-> "discard", err |-> "nil", out |-> <<>>]
            ELSE [kind |-> "payload", err |-> "nil", out |-> <<>>]

\* checkHeader answering a frame it does not accept with an error frame.
checkHeader_ErrorReply(st, header) ==
    IF header.PacketLength > MaxMessageSize /\ policy = MessageOverflowDiscard
    THEN [kind |-> "overflow", err |-> "nil", out |-> <<>>]
    ELSE IF header.PacketLength > MaxMessageSize /\ policy = MessageOverflowTerminate
    THEN [kind |-> "return", err |-> ErrMsgLength, out |-> <<>>]
    ELSE IF header.MessageType \notin DOMAIN reg.Descriptors
    THEN [kind |-> "return", err |-> ErrInvalidDescriptor, out |-> <<0, 0, 0, 0, 255, 0, 0, 0>>]
    ELSE LET descriptor == reg.Descriptors[header.MessageType]
         IN IF descriptor.Message.Direction = OutboundMessage
            THEN [kind |-> "return", err |-> ErrSentInvalidDirection, out |-> <<>>]
            ELSE IF ~descriptor.Internal /\ st = ConnWaitHello
            THEN [kind |-> "return", err |-> ErrInvalidDescriptor, out |-> <<0, 0, 0, 0, 255, 0, 0, 0>>]
            ELSE IF descriptor.Handler = "nil"
            THEN [kind |-> "discard", err |-> "nil", out |-> <<>>]
            ELSE [kind |-> "payload", err |-> "nil", out |-> <<>>]

\* checkHeader with a WaitHello guard that lets nothing but inbound Hello pass.
checkHeader_HelloFirst(st, header) ==
    IF header.PacketLength > MaxMessageSize /\ policy = MessageOverflowDiscard
    THEN [kind |-> "overflow", err |-> "nil", out |-> <<>>]
    ELSE IF header.PacketLength > MaxMessageSize /\ policy = MessageOverflowTerminate
    THEN [kind |-> "return", err |-> ErrMsgLength, out |-> <<>>]
    ELSE IF header.MessageType \notin DOMAIN reg.Descriptors
    THEN [kind |-> "return", err |-> ErrInvalidDescriptor, out |-> <<>>]
    ELSE LET descriptor == reg.Descriptors[header.MessageType]
         IN IF descriptor.Message.Direction = OutboundMessage
            THEN [kind |-> "return", err |-> ErrSentInvalidDirection, out |-> <<>>]
            ELSE IF st = ConnWaitHello
                    /\ ~(descriptor.Internal /\ descriptor.Message.Name = "Hello")
            THEN [kind |-> "return", err |-> ErrInvalidDescriptor, out |-> <<>>]
            ELSE IF descriptor.Handler = "nil"
            THEN [kind |-> "discard", err |-> "nil", out |-> <<>>]
            ELSE [kind |-> "payload", err |-> "nil", out |-> <<>>]

\* nextMessage between the header and the body: what it does with a frame whose
\* header it has read, on a connection in state st.
\*   "overflow": drop the body of an oversized frame, return nil
\*   "return"  : return err without touching the body
\*   "discard" : no handler: drop the body, return nil
\*   "payload" : read the body and call the handler
\* out is what it writes to the peer on the way.
checkHeader(st, header) ==
    IF header.PacketLength > MaxMessageSize /\ policy = MessageOverflowDiscard
    THEN [kind |-> "overflow", err |-> "nil", out |-> <<>>]
    ELSE IF header.PacketLength > MaxMessageSize /\ policy = MessageOverflowTerminate
    THEN [kind |-> "return", err |-> ErrMsgLength, out |-> <<>>]
    ELSE IF header.MessageType \notin DOMAIN reg.Descriptors
    THEN [kind |-> "return", err |-> ErrInvalidDescriptor, out |-> <<>>]
    ELSE LET descriptor == reg.Descriptors[header.MessageType]
         IN IF descriptor.Message.Direction = OutboundMessage
            THEN [kind |-> "return", err |-> ErrSentInvalidDirection, out |-> <<>>]
            ELSE IF ~descriptor.Internal /\ st = ConnWaitHello
            THEN [kind |-> "return", err |-> ErrInvalidDescriptor, out |-> <<>>]
            ELSE IF descriptor.Handler = "nil"
            THEN [kind |-> "discard", err |-> "nil", out |-> <<>>]
            ELSE [kind |-> "payload", err |-> "nil", out |-> <<>>]

LogEntry(off, ok, header, st, kind, e) ==
    [off |-> off, ok |-> ok, len |-> header.PacketLength, id |-> header.MessageType,
     st |-> st, kind |-> kind, err |-> e, body |-> 0, handled |-> FALSE]

\* A loop that logs the error and goes on to the next message.
Exit_NoBreak(e) ==
    /\ pc' = "header"
    /\ closed' = FALSE
    /\ err' = e

\* HandleConnection leaving its loop: break, then the deferred netConn.Close().
Exit(e) ==
    /\ pc' = "done"
    /\ closed' = TRUE
    /\ err' = e

\* nextMessage from its start to the point where it returns or waits for the body.
NextMessageHeader ==
    /\ pc = "header"
    /\ ~closed
    /\ Avail >= 8 \/ peerClosed
    /\ LET h == readHeader
           r == checkHeader(state, h.header)
       IN /\ rpos' = rpos + h.n
          /\ IF h.err # "nil"
             THEN /\ Exit(h.err)
                  /\ log' = Append(log, LogEntry(rpos, FALSE, h.header, state, "return", h.err))
                  /\ UNCHANGED <<hdr, outbuf>>
             ELSE /\ hdr' = h.header
                  /\ outbuf' = outbuf \o r.out
                  /\ log' = Append(log, LogEntry(rpos, TRUE, h.header, state, r.kind, r.err))
                  /\ IF r.kind = "return"
                     THEN Exit(r.err)
                     ELSE /\ pc' = IF r.kind = "payload" THEN "payload" ELSE "discard"
                          /\ UNCHANGED <<closed, err>>
    /\ UNCHANGED <<regVars, codecVars, cacheVars, policy, state, inbuf, peerClosed, sent>>

\* A discard that returns nil without consuming the body.
NextMessageDiscard_NoCopy ==
    /\ pc = "discard"
    /\ log' = [log EXCEPT ![Len(log)].body = 0]
    /\ pc' = "header"
    /\ UNCHANGED <<regVars, codecVars, cacheVars, policy, state, hdr, inbuf, rpos, peerClosed, closed,
                   err, outbuf, sent>>

\* io.CopyN(io.Discard, c.conn, PacketLength); its error is dropped; return nil.
NextMessageDiscard ==
    /\ pc = "discard"
    /\ Avail >= hdr.PacketLength \/ peerClosed
    /\ LET n == Min(Avail, hdr.PacketLength)
       IN /\ rpos' = rpos + n
          /\ log' = [log EXCEPT ![Len(log)].body = n]
    /\ pc' = "header"
    /\ UNCHANGED <<regVars, codecVars, cacheVars, policy, state, hdr, inbuf, peerClosed, closed, err,
                   outbuf, sent>>

\* readPaylod(PacketLength), then the handler; a handler of the application
\* returns nil or an error, and has no access to the connection's fields.
NextMessagePayload ==
    /\ pc = "payload"
    /\ Avail >= hdr.PacketLength \/ peerClosed
    /\ IF Avail >= hdr.PacketLength
       THEN /\ rpos' = rpos + hdr.PacketLength
            /\ \E e \in {"nil", ErrHandler} :
                 /\ log' = [log EXCEPT ![Len(log)].body = hdr.PacketLength,
                                       ![Len(log)].handled = TRUE,
                                       ![Len(log)].err = e]
                 /\ IF e = "nil"
                    THEN pc' = "header" /\ UNCHANGED <<closed, err>>
                    ELSE Exit(e)
       ELSE /\ rpos' = Len(inbuf)
            /\ log' = [log EXCEPT ![Len(log)].body = Avail,
                                  ![Len(log)].err = ErrUnexpectedEOF]
            /\ Exit(ErrUnexpectedEOF)
    /\ UNCHANGED <<regVars, codecVars, cacheVars, policy, state, hdr, inbuf, peerClosed, outbuf, sent>>

HandleConnection == NextMessageHeader \/ NextMessageDiscard \/ NextMessagePayload

----------------------------------------------------------------------------
(* The peer: writes frames (8-byte header, then the body), maybe a truncated
   last one, and closes *)

UnknownID == 3 * 16777216

FrameLens == {0, MaxMessageSize, MaxMessageSize + 1}
FrameIDs == DOMAIN reg.Descriptors \cup {UnknownID}

Body(len) == [i \in 1..len |-> i]

Frame(len, id) == PutUint32(len) \o PutUint32(id) \o Body(len)

PeerSendFrame(len, id) ==
    /\ ~peerClosed /\ ~closed
    /\ Len(sent) < MaxFrames
    /\ inbuf' = inbuf \o Frame(len, id)
    /\ sent' = Append(sent, [off |-> Len(inbuf), len |-> len, id |-> id, n |-> 8 + len])
    /\ UNCHANGED <<regVars, codecVars, cacheVars, policy, state, pc, hdr, rpos, peerClosed, closed, err,
                   outbuf, log>>

\* The first k bytes of a frame, after which the stream ends.
PeerSendPartial(len, id, k) ==
    /\ ~peerClosed /\ ~closed
    /\ Len(sent) < MaxFrames
    /\ inbuf' = inbuf \o SubSeq(Frame(len, id), 1, k)
    /\ sent' = Append(sent, [off |-> Len(inbuf), len |-> len, id |-> id, n |-> k])
    /\ peerClosed' = TRUE
    /\ UNCHANGED <<regVars, codecVars, cacheVars, policy, state, pc, hdr, rpos, closed, err, outbuf, log>>

PeerClose ==
    /\ ~peerClosed /\ ~closed
    /\ peerClosed' = TRUE
    /\ UNCHANGED <<regVars, codecVars, cacheVars, policy, state, pc, hdr, inbuf, rpos, closed, err,
                   outbuf, log, sent>>

Peer ==
    \/ \E len \in FrameLens, id \in FrameIDs : PeerSendFrame(len, id)
    \/ \E len \in FrameLens, id \in FrameIDs :
          \E k \in {4, 8, 7 + len} : k < 8 + len /\ PeerSendPartial(len, id, k)
    \/ PeerClose

----------------------------------------------------------------------------
(* reflect: the values the codec reads and writes through reflection *)

\* A Go value is its kind with its content. Integers are the little-endian
\* bytes of their two's complement, as many as the type is wide.
\*   "bytes"     []byte          isnil, bytes
\*   "string"    string          bytes
\*   "bytearray" [N]byte         bytes
\*   "uint"      uint16/32/64    bytes
\*   "int"       int16/32/64     bytes
\*   "list"      []T, T # byte   isnil, elem (the zero value of T), items
\*   "struct"    struct          fields: the `ipc` tag and the value of each
\*   "invalid"   reflect.Value{}
Invalid == [kind |-> "invalid"]
BytesValue(b) == [kind |-> "bytes", isnil |-> FALSE, bytes |-> b]
NilBytes == [kind |-> "bytes", isnil |-> TRUE, bytes |-> <<>>]
StringValue(b) == [kind |-> "string", bytes |-> b]
ByteArrayValue(b) == [kind |-> "bytearray", bytes |-> b]
UintValue(b) == [kind |-> "uint", bytes |-> b]
IntValue(b) == [kind |-> "int", bytes |-> b]
ListValue(elem, items) == [kind |-> "list", isnil |-> FALSE, elem |-> elem, items |-> items]
NilList(elem) == [kind |-> "list", isnil |-> TRUE, elem |-> elem, items |-> <<>>]
StructField(tag, v) == [tag |-> tag, value |-> v]
StructValue(fields) == [kind |-> "struct", fields |-> fields]

Zeros(n) == [i \in 1..n |-> 0]

AllZero(b) == \A i \in DOMAIN b : b[i] = 0

\* reflect.Value.IsZero
RECURSIVE IsZero(_)
IsZero(f) ==
    CASE f.kind \in {"bytes", "list"} -> f.isnil
      [] f.kind = "string" -> f.bytes = <<>>
      [] f.kind \in {"bytearray", "uint", "int"} -> AllZero(f.bytes)
      [] f.kind = "struct" -> \A i \in DOMAIN f.fields : IsZero(f.fields[i].value)
      [] OTHER -> FALSE

\* reflect.Zero of the type of f
RECURSIVE ZeroOf(_)
ZeroOf(f) ==
    CASE f.kind = "bytes" -> NilBytes
      [] f.kind = "list" -> NilList(f.elem)
      [] f.kind = "string" -> StringValue(<<>>)
      [] f.kind \in {"bytearray", "uint", "int"} -> [f EXCEPT !.bytes = Zeros(Len(f.bytes))]
      [] f.kind = "struct" ->
            StructValue([i \in DOMAIN f.fields |->
                            StructField(f.fields[i].tag, ZeroOf(f.fields[i].value))])
      [] OTHER -> f

\* A panic is the value recover() returns: a string, or a value of another
\* type (a runtime.Error, a *reflect.ValueError).
NoPanic == "nil"
PanicValueError == "<*reflect.ValueError>"
PanicTypeAssertion == "<*runtime.TypeAssertionError>"
PanicIndex == "<runtime.boundsError>"
PanicUnaddressable == "reflect.Value.Bytes of unaddressable byte array"
PanicNotString == {PanicValueError, PanicTypeAssertion, PanicIndex}

\* reflect.Value.Bytes of a field of a struct passed by value: a slice of
\* bytes is returned, an array of bytes is not addressable.
BytesPanic(f) ==
    CASE f.kind = "bytes" -> NoPanic
      [] f.kind = "bytearray" -> PanicUnaddressable
      [] OTHER -> PanicValueError

\* The sign or zero extension of an integer to w bytes, or its truncation.
Extend(b, w, fill) == [i \in 1..w |-> IF i <= Len(b) THEN b[i] ELSE fill]

SignFill(b) == IF b # <<>> /\ b[Len(b)] >= 128 THEN 255 ELSE 0

\* reflect.Value.Uint, reflect.Value.Int: the 64-bit value, a panic on
\* another kind; uintN(..), intN(..): the low bytes of it.
ValueUint(f) == Extend(f.bytes, 8, 0)
ValueInt(f) == Extend(f.bytes, 8, SignFill(f.bytes))
UintPanic(f) == IF f.kind = "uint" THEN NoPanic ELSE PanicValueError
IntPanic(f) == IF f.kind = "int" THEN NoPanic ELSE PanicValueError
Low(b, w) == SubSeq(b, 1, w)

\* reflect.Value.Len and reflect.Value.Index
HasLen(f) == f.kind \in {"bytes", "string", "bytearray", "list"}
ValueLen(f) == IF f.kind = "list" THEN Len(f.items) ELSE Len(f.bytes)
Index(f, i) == IF f.kind = "list" THEN f.items[i] ELSE UintValue(<<f.bytes[i]>>)

\* AppendUint16 writing the high byte first.
PutUint16_BigEndian(n) == <<(n \div 256) % 256, n % 256>>

\* binary.LittleEndian
PutUint16(n) == <<n % 256, (n \div 256) % 256>>
Uint16(b) == b[1] + b[2] * 256

\* The loop of computeFieldMap over the fields of the struct type, from
\* field i on: the tag of a field to its index.
RECURSIVE computeFieldMapFrom(_, _, _)
computeFieldMapFrom(fields, i, fMap) ==
    IF i > Len(fields) THEN [m |-> fMap, err |-> "nil"]
    ELSE LET tag == fields[i].tag
         IN IF tag = "" THEN computeFieldMapFrom(fields, i + 1, fMap)
            ELSE IF tag \in DOMAIN fMap
            THEN [m |-> EmptyMap, err |-> "duplicate struct tag: " \o tag]
            ELSE computeFieldMapFrom(fields, i + 1, (tag :> i) @@ fMap)

\* A field map in which the last of the fields with a tag takes the tag.
computeFieldMap_LastWins(v) ==
    [m |-> [tag \in {v.fields[i].tag : i \in DOMAIN v.fields} \ {""} |->
              CHOOSE i \in DOMAIN v.fields :
                 /\ v.fields[i].tag = tag
                 /\ \A j \in DOMAIN v.fields : v.fields[j].tag = tag => j <= i],
     err |-> "nil"]

computeFieldMap(v) == computeFieldMapFrom(v.fields, 1, EmptyMap)

----------------------------------------------------------------------------
(* part_002: typeCache, the process-wide cache of computeFieldMap *)

\* The struct types whose field maps are asked for, each given by its zero
\* value: two tagged fields, two fields with the same tag, one field
\* without a tag.
TypeAB ==
    StructValue(<<StructField("a", IntValue(<<0, 0>>)), StructField("b", IntValue(<<0, 0>>))>>)
TypeAA ==
    StructValue(<<StructField("a", IntValue(<<0, 0>>)), StructField("a", IntValue(<<0, 0>>))>>)
TypeA ==
    StructValue(<<StructField("a", IntValue(<<0, 0>>)), StructField("", IntValue(<<0, 0>>))>>)
CacheTypes == {TypeAB, TypeAA, TypeA}

NumRoutines == 2        \* goroutines that use the codec at the same time
MaxUses == 2            \* calls of computeFieldMap by one goroutine

Routines == 1..NumRoutines

\* No entry of the sync.Map / the nil fieldMap.
NoEntry == [id |-> <<>>, m |-> EmptyMap]
NilMap == NoEntry

\* make(fieldMap, numField) in call `use` of goroutine g: a map of its own.
MakeMap(g, use, m) == [id |-> <<g, use>>, m |-> m]

\* typeCache.Load(t)
Load(cache, t) == [value |-> cache[t], ok |-> cache[t] # NoEntry]

\* sync.Map.Store: the entry is written whatever the map holds.
LoadOrStore_Store(cache, t, value) ==
    [cache |-> [cache EXCEPT ![t] = value], actual |-> value]

\* typeCache.LoadOrStore(t, fMap): the value of the entry if there is one,
\* otherwise fMap, which is stored.
LoadOrStore(cache, t, value) ==
    IF cache[t] # NoEntry
    THEN [cache |-> cache, actual |-> cache[t]]
    ELSE [cache |-> [cache EXCEPT ![t] = value], actual |-> value]

\* A goroutine outside computeFieldMap, before its first call.
IdleRoutine ==
    [pc |-> "idle", t |-> TypeAB, fMap |-> NilMap, uses |-> 0,
     ret |-> [fMap |-> NilMap, err |-> "nil"]]

Return(r, fMap, e) ==
    [r EXCEPT !.pc = "idle", !.ret = [fMap |-> fMap, err |-> e]]

----------------------------------------------------------------------------
(* part_001: the encoder *)

ErrRequiredNotPresent == "required field not present in struct"
ErrWrongLen == "fixed binary field: wrong length"
ErrLenTooBig16 == "binary field: length too long (must not be more than 65,535 bytes)"
ErrArrLenTooBig == "array field: length too long (must not be more than 65,535 elements)"
ErrOutOfBounds == "out of bounds"
ErrOptionalCorrupted == "optional count is corrupted"
ErrTypeCorrupted == "message type is corrupted"
ErrInvalidResultObject == "invalid result object (expected *struct)"
ErrInvalidResultPointer == "invalid result poinetr (expected struct)"
ErrInvalidByteKind == "invalid field kind (expected Array ([N]byte), Slice ([]byte) or string)"

MaxUint16 == 65535

\* A Writer: the slice `buffer`, the cursor `pos`, and `spare`, the bytes of
\* the array of the slice that stand behind its length (what a re-slice of
\* GrowBytes cut off; an append writes over them). `err` and `panic` carry
\* the way the call in progress ended.
NewWriter == [buffer |-> <<>>, pos |-> 0, spare |-> <<>>, err |-> "nil", panic |-> NoPanic]

Fail(w, e) == [w EXCEPT !.err = e]
Throw(w, p) == [w EXCEPT !.panic = p]
Failed(w) == w.err # "nil" \/ w.panic # NoPanic

\* w.buffer = append(w.buffer, bytes...)
AppendBytes(w, bytes) ==
    [w EXCEPT !.buffer = @ \o bytes,
              !.spare = SubSeq(@, Len(bytes) + 1, Len(@))]

\* GrowBytes re-slices the buffer to pos + n: bytes behind that position are
\* cut off, bytes missing up to it come from the array (zero where nothing
\* was written). It returns the old pos, which the caller reads from w.
GrowBytes(w, n) ==
    LET newPos == w.pos + n
        array == w.buffer \o w.spare
    IN [w EXCEPT !.buffer = Extend(array, newPos, 0),
                 !.spare = SubSeq(array, newPos + 1, Len(array)),
                 !.pos = newPos]

BitSet(b, bitPos) == (b \div (2 ^ bitPos)) % 2 = 1

SetOpt(w, opt, offset) ==
    LET bitPos == opt % 8
        bytePos == offset + (opt \div 8)
    IN IF bytePos >= Len(w.buffer) THEN Throw(w, PanicIndex)
       ELSE IF BitSet(w.buffer[bytePos + 1], bitPos) THEN w
       ELSE [w EXCEPT !.buffer[bytePos + 1] = @ + 2 ^ bitPos]

\* The optional counter has used up the bitmap.
OptionalOverrun(optCounter, optBytes) == optCounter >= optBytes

LenTooBig16(byteLen) == byteLen > MaxUint16

ArrLenTooBig(arrLen) == arrLen > MaxUint16

ScalarTypes == TypeFixedBinary..TypeInt16

Emit(bytes) == [bytes |-> bytes, err |-> "nil", panic |-> NoPanic]
EmitErr(e) == [bytes |-> <<>>, err |-> e, panic |-> NoPanic]
EmitPanic(p) == [bytes |-> <<>>, err |-> "nil", panic |-> p]

\* The cases of encodeSingle for the binary and integer types: the bytes
\* they append to the buffer, or the way they end.
encodeScalar(field, f) ==
    CASE field.Type = TypeFixedBinary ->
            IF field.Extra.kind # "int" THEN EmitPanic(PanicTypeAssertion)
            ELSE IF BytesPanic(f) # NoPanic THEN EmitPanic(BytesPanic(f))
            ELSE IF Len(f.bytes) # field.Extra.n THEN EmitErr(ErrWrongLen)
            ELSE Emit(f.bytes)
      [] field.Type = TypeDynamicBinary ->
            IF BytesPanic(f) # NoPanic THEN EmitPanic(BytesPanic(f))
            ELSE IF LenTooBig16(Len(f.bytes)) THEN EmitErr(ErrLenTooBig16)
            ELSE Emit(PutUint16(Len(f.bytes)) \o f.bytes)
      [] field.Type = TypeLongBinary ->
            \* no slice of the model is longer than 4294967295 bytes
            IF BytesPanic(f) # NoPanic THEN EmitPanic(BytesPanic(f))
            ELSE Emit(PutUint32(Len(f.bytes)) \o f.bytes)
      [] field.Type = TypeUInt64 ->
            IF UintPanic(f) # NoPanic THEN EmitPanic(UintPanic(f))
            ELSE Emit(ValueUint(f))
      [] field.Type = TypeInt64 ->
            IF IntPanic(f) # NoPanic THEN EmitPanic(IntPanic(f))
            ELSE Emit(ValueInt(f))
      [] field.Type = TypeUInt32 ->
            IF UintPanic(f) # NoPanic THEN EmitPanic(UintPanic(f))
            ELSE Emit(Low(ValueUint(f), 4))
      [] field.Type = TypeInt32 ->
            IF IntPanic(f) # NoPanic THEN EmitPanic(IntPanic(f))
            ELSE Emit(Low(ValueInt(f), 4))
      [] field.Type = TypeUInt16 ->
            IF UintPanic(f) # NoPanic THEN EmitPanic(UintPanic(f))
            ELSE Emit(Low(ValueUint(f), 2))
      [] field.Type = TypeInt16 ->
            IF IntPanic(f) # NoPanic THEN EmitPanic(IntPanic(f))
            ELSE Emit(Low(ValueInt(f), 2))

\* The loop of encodeSingle over the items lo..hi of an array whose items
\* are of a binary or integer type: what the items append, up to the first
\* that fails. (The range is halved so that 65535 items can be evaluated.)
RECURSIVE encodeScalarItems(_, _, _, _)
encodeScalarItems(e, f, lo, hi) ==
    IF lo > hi THEN Emit(<<>>)
    ELSE IF lo = hi THEN encodeScalar(e, Index(f, lo))
    ELSE LET mid == (lo + hi) \div 2
             l == encodeScalarItems(e, f, lo, mid)
         IN IF l.err # "nil" \/ l.panic # NoPanic THEN l
            ELSE LET r == encodeScalarItems(e, f, mid + 1, hi)
                 IN [r EXCEPT !.bytes = l.bytes \o @]

Apply(w, r) == [AppendBytes(w, r.bytes) EXCEPT !.err = r.err, !.panic = r.panic]

\* A field of which nothing is emitted, as if any field without a value
\* could be left out.
Skipped_Required(field, exists) == ~exists

\* The field is left out: an optional field without a binding or with a
\* zero value in its slot (the `continue` of the loop).
Skipped(field, exists) == field.Optional /\ ~exists

RECURSIVE encodeStruct(_, _, _)
RECURSIVE encodeFields(_, _, _, _, _, _, _, _)
RECURSIVE encodeSingle(_, _, _)
RECURSIVE encodeItems(_, _, _, _)
RECURSIVE encodeStructItems(_, _, _, _)

\* The loop of encodeSingle over the items of an array, from item i on.
encodeItems(w, e, f, i) ==
    IF i > ValueLen(f) THEN w
    ELSE LET w1 == encodeSingle(w, e, Index(f, i))
         IN IF Failed(w1) THEN w1 ELSE encodeItems(w1, e, f, i + 1)

encodeStructItems(w, desc, f, i) ==
    IF i > ValueLen(f) THEN w
    ELSE LET w1 == encodeStruct(w, desc, Index(f, i))
         IN IF Failed(w1) THEN w1 ELSE encodeStructItems(w1, desc, f, i + 1)

encodeSingle(w, field, f) ==
    IF f.kind = "invalid" THEN Fail(w, ErrRequiredNotPresent)
    ELSE IF field.Type \in ScalarTypes THEN Apply(w, encodeScalar(field, f))
    ELSE IF field.Type = TypeObject
    THEN IF field.Extra.kind # "MessageDescriptor" THEN Throw(w, PanicTypeAssertion)
         ELSE encodeStruct(w, field.Extra.descriptor, f)
    ELSE IF field.Type = TypeArray
    THEN IF ~HasLen(f) THEN Throw(w, PanicValueError)
         ELSE IF ArrLenTooBig(ValueLen(f)) THEN Fail(w, ErrArrLenTooBig)
         ELSE LET w1 == AppendBytes(w, PutUint16(ValueLen(f)))
              IN CASE field.Extra.kind = "MessageField" ->
                         IF field.Extra.field.Type \in ScalarTypes
                         THEN Apply(w1, encodeScalarItems(field.Extra.field, f, 1, ValueLen(f)))
                         ELSE encodeItems(w1, field.Extra.field, f, 1)
                   [] field.Extra.kind = "SchemaMessage" ->
                         encodeStructItems(w1, MessageDescriptor(0, field.Extra.message, FALSE), f, 1)
                   [] OTHER -> w1
    ELSE Fail(w, ErrTypeCorrupted)

\* The loop of encodeStruct over descriptor.Message.Fields, from field i on.
encodeFields(w, descriptor, v, fMap, i, optCounter, optBytes, optListOffset) ==
    IF i > Len(descriptor.Message.Fields) THEN w
    ELSE LET field == descriptor.Message.Fields[i]
             bound == field.Name \in DOMAIN fMap
             f == IF bound THEN v.fields[fMap[field.Name]].value ELSE Invalid
             exists == bound /\ ~IsZero(f)
         IN IF field.Optional /\ OptionalOverrun(optCounter, optBytes)
            THEN Fail(w, ErrOptionalCorrupted)
            ELSE IF Skipped(field, exists)
            THEN encodeFields(w, descriptor, v, fMap, i + 1, optCounter + 1,
                              optBytes, optListOffset)
            ELSE LET w1 == IF field.Optional THEN SetOpt(w, optCounter, optListOffset) ELSE w
                     w2 == IF Failed(w1) THEN w1 ELSE encodeSingle(w1, field, f)
                     n == IF field.Optional THEN optCounter + 1 ELSE optCounter
                 IN IF Failed(w2) THEN w2
                    ELSE encodeFields(w2, descriptor, v, fMap, i + 1, n, optBytes,
                                      optListOffset)

encodeStruct(w, descriptor, v) ==
    IF v.kind # "struct" THEN Fail(w, ErrInvalidResultPointer)
    ELSE LET fm == computeFieldMap(v)
             optBytes == OptFlagLength(descriptor)
         IN IF fm.err # "nil" THEN Fail(w, fm.err)
            ELSE encodeFields(GrowBytes(w, optBytes), descriptor, v, fm.m, 1, 0,
                              optBytes, w.pos)

\* What the deferred function of Encode makes of a recovered panic.
PanicError(p) ==
    IF p \in PanicNotString THEN "panic: a panic occured" ELSE "panic: " \o p

NilSlice == [isnil |-> TRUE, bytes |-> <<>>]

\* Encode returning, with the error, the bytes written before it.
Encode_KeepsBytes(descriptor, v) ==
    IF v.kind # "struct" THEN [bytes |-> NilSlice, err |-> ErrInvalidResultPointer]
    ELSE LET w == encodeStruct(NewWriter, descriptor, v)
             written == [isnil |-> FALSE, bytes |-> w.buffer]
         IN IF w.panic # NoPanic THEN [bytes |-> written, err |-> PanicError(w.panic)]
            ELSE IF w.err # "nil" THEN [bytes |-> written, err |-> w.err]
            ELSE [bytes |-> written, err |-> "nil"]

\* Encode: the returned bytes and error.
Encode(descriptor, v) ==
    IF v.kind # "struct" THEN [bytes |-> NilSlice, err |-> ErrInvalidResultPointer]
    ELSE LET w == encodeStruct(NewWriter, descriptor, v)
         IN IF w.panic # NoPanic THEN [bytes |-> NilSlice, err |-> PanicError(w.panic)]
            ELSE IF w.err # "nil" THEN [bytes |-> NilSlice, err |-> w.err]
            ELSE [bytes |-> [isnil |-> FALSE, bytes |-> w.buffer], err |-> "nil"]

----------------------------------------------------------------------------
(* schema.go: FieldType.GetFixedSize *)

\* The value each case of the switch returns for a type without parameter:
\* the cases of TypeUInt64, TypeUInt32 and TypeUInt16 are empty and leave
\* the switch, so that the function returns 0 for them.
FixedSizeOf ==
    (TypeDynamicBinary :> 2) @@ (TypeLongBinary :> 4) @@ (TypeUInt64 :> 0)
    @@ (TypeInt64 :> 8) @@ (TypeUInt32 :> 0) @@ (TypeInt32 :> 4)
    @@ (TypeUInt16 :> 0) @@ (TypeInt16 :> 2) @@ (TypeArray :> 2)

\* MessageDescriptor.GetFixedSize, from the specification (4.2): the sum of
\* the fixed sizes of the required fields that are neither Object nor Array.
RECURSIVE DescriptorFixedSizeFrom(_, _)
DescriptorFixedSizeFrom(fields, i) ==
    IF i > Len(fields) THEN 0
    ELSE (IF fields[i].Optional \/ fields[i].Type \in {TypeObject, TypeArray} THEN 0
          ELSE IF fields[i].Type = TypeFixedBinary THEN fields[i].Extra.n
          ELSE FixedSizeOf[fields[i].Type])
         + DescriptorFixedSizeFrom(fields, i + 1)

DescriptorGetFixedSize(descriptor) == DescriptorFixedSizeFrom(descriptor.Message.Fields, 1)

GetFixedSize(type, extra) ==
    CASE type = TypeFixedBinary ->
            IF extra.kind = "int" THEN [n |-> extra.n, panic |-> NoPanic]
            ELSE [n |-> 0, panic |-> PanicTypeAssertion]
      [] type = TypeObject ->
            IF extra.kind = "MessageDescriptor"
            THEN [n |-> DescriptorGetFixedSize(extra.descriptor), panic |-> NoPanic]
            ELSE [n |-> 0, panic |-> PanicTypeAssertion]
      [] type \in DOMAIN FixedSizeOf -> [n |-> FixedSizeOf[type], panic |-> NoPanic]
      [] OTHER -> [n |-> 0, panic |-> NoPanic]

----------------------------------------------------------------------------
(* part_002: the decoder *)

\* A Reader, with the way the call in progress ended.
NewReader(buffer, descriptor) ==
    [buffer |-> buffer, descriptor |-> descriptor, pos |-> 0, len |-> Len(buffer),
     err |-> "nil", panic |-> NoPanic]

\* ReadBytes: the reader after the call and the bytes it returned.
ReadBytes(r, n) ==
    IF n > r.len - r.pos
    THEN [r |-> [r EXCEPT !.err = ErrOutOfBounds], bytes |-> <<>>]
    ELSE [r |-> [r EXCEPT !.pos = @ + n], bytes |-> SubSeq(r.buffer, r.pos + 1, r.pos + n)]

\* ReadBytes(n) for the n a 32-bit length prefix holds. A prefix of 2^31 or
\* more exceeds every buffer of the model; it is compared without being
\* computed.
ReadBytes32(r, prefix) ==
    IF prefix[4] >= 128
    THEN [r |-> [r EXCEPT !.err = ErrOutOfBounds], bytes |-> <<>>]
    ELSE ReadBytes(r, Uint32(prefix))

GetOpt(opt, optList) == BitSet(optList[(opt \div 8) + 1], opt % 8)

\* setBytes: the slot after the call (the slice and the string take the
\* bytes, the array copies them) and the error. A slice of another element
\* type gets the header of the byte slice written over its own.
setBytes(bytes, v) ==
    CASE v.kind = "bytearray" ->
            IF Len(bytes) # Len(v.bytes) THEN [v |-> v, err |-> ErrWrongLen]
            ELSE [v |-> ByteArrayValue(bytes), err |-> "nil"]
      [] v.kind = "bytes" -> [v |-> BytesValue(bytes), err |-> "nil"]
      [] v.kind = "list" ->
            [v |-> [kind |-> "aliased", elem |-> v.elem, bytes |-> bytes], err |-> "nil"]
      [] v.kind = "string" -> [v |-> StringValue(bytes), err |-> "nil"]
      [] OTHER -> [v |-> v, err |-> ErrInvalidByteKind]

\* The result of a decoding step: the reader and the slot after it.
Step(r, f) == [r |-> r, f |-> f]
StepErr(r, f, e) == [r |-> [r EXCEPT !.err = e], f |-> f]
StepPanic(r, f, p) == [r |-> [r EXCEPT !.panic = p], f |-> f]
Stopped(r) == r.err # "nil" \/ r.panic # NoPanic

\* The end of the three binary cases: the bytes were read.
StoreBytes(rd, f) ==
    IF Stopped(rd.r) \/ f.kind = "invalid" THEN Step(rd.r, f)
    ELSE LET s == setBytes(rd.bytes, f)
         IN IF s.err # "nil" THEN StepErr(rd.r, s.v, s.err) ELSE Step(rd.r, s.v)

\* The end of the six integer cases: the w bytes of the number were read;
\* it is widened to 64 bits and f.SetUint or f.SetInt stores its low bytes.
StoreNumber(rd, f, signed) ==
    IF Stopped(rd.r) \/ f.kind = "invalid" THEN Step(rd.r, f)
    ELSE IF f.kind # (IF signed THEN "int" ELSE "uint")
    THEN StepPanic(rd.r, f, PanicValueError)
    ELSE LET num == Extend(rd.bytes, 8, IF signed THEN SignFill(rd.bytes) ELSE 0)
         IN Step(rd.r, [f EXCEPT !.bytes = Low(num, Len(f.bytes))])

PanicMakeSlice == "reflect.MakeSlice of non-slice type"

\* reflect.MakeSlice(f.Type(), n, n)
MakeSlice(f, n) ==
    IF f.kind = "list" THEN ListValue(f.elem, [i \in 1..n |-> f.elem])
    ELSE ListValue(UintValue(<<0>>), [i \in 1..n |-> UintValue(<<0>>)])

RECURSIVE decodeStruct(_, _, _)
RECURSIVE decodeFields(_, _, _, _, _, _, _, _)
RECURSIVE decodeSingle(_, _, _)
RECURSIVE decodeItems(_, _, _, _)
RECURSIVE decodeStructItems(_, _, _, _)

\* The loop of decodeSingle over the items of the new slice, from item i on.
decodeItems(r, e, slice, i) ==
    IF i > Len(slice.items) THEN Step(r, slice)
    ELSE LET s == decodeSingle(r, e, slice.items[i])
             slice1 == [slice EXCEPT !.items[i] = s.f]
         IN IF Stopped(s.r) THEN Step(s.r, slice1)
            ELSE decodeItems(s.r, e, slice1, i + 1)

decodeStructItems(r, e, slice, i) ==
    IF i > Len(slice.items) THEN Step(r, slice)
    ELSE LET s == decodeStruct(r, e, slice.items[i])
             slice1 == [slice EXCEPT !.items[i] = s.f]
         IN IF Stopped(s.r) THEN Step(s.r, slice1)
            ELSE decodeStructItems(s.r, e, slice1, i + 1)

decodeSingle(r, field, f) ==
    CASE field.Type = TypeFixedBinary ->
            IF field.Extra.kind # "int" THEN StepPanic(r, f, PanicTypeAssertion)
            ELSE StoreBytes(ReadBytes(r, field.Extra.n), f)
      [] field.Type = TypeDynamicBinary ->
            LET len == ReadBytes(r, 2)
            IN IF Stopped(len.r) THEN Step(len.r, f)
               ELSE StoreBytes(ReadBytes(len.r, Uint16(len.bytes)), f)
      [] field.Type = TypeLongBinary ->
            LET len == ReadBytes(r, 4)
            IN IF Stopped(len.r) THEN Step(len.r, f)
               ELSE StoreBytes(ReadBytes32(len.r, len.bytes), f)
      [] field.Type = TypeUInt64 -> StoreNumber(ReadBytes(r, 8), f, FALSE)
      [] field.Type = TypeInt64 -> StoreNumber(ReadBytes(r, 8), f, TRUE)
      [] field.Type = TypeUInt32 -> StoreNumber(ReadBytes(r, 4), f, FALSE)
      [] field.Type = TypeInt32 -> StoreNumber(ReadBytes(r, 4), f, TRUE)
      [] field.Type = TypeUInt16 -> StoreNumber(ReadBytes(r, 2), f, FALSE)
      [] field.Type = TypeInt16 -> StoreNumber(ReadBytes(r, 2), f, TRUE)
      [] field.Type = TypeObject ->
            IF field.Extra.kind # "MessageDescriptor" THEN StepPanic(r, f, PanicTypeAssertion)
            ELSE IF f.kind = "invalid" THEN Step(r, f)
            ELSE decodeStruct(r, field.Extra.descriptor, f)
      [] field.Type = TypeArray ->
            LET len == ReadBytes(r, 2)
                arrLen == Uint16(len.bytes)
                e == field.Extra
                size == IF e.kind = "MessageField"
                        THEN GetFixedSize(e.field.Type, e.field.Extra)
                        ELSE [n |-> DescriptorGetFixedSize(e.descriptor), panic |-> NoPanic]
            IN IF Stopped(len.r) \/ f.kind = "invalid" THEN Step(len.r, f)
               ELSE IF e.kind \notin {"MessageField", "MessageDescriptor"} THEN Step(len.r, f)
               ELSE IF size.panic # NoPanic THEN StepPanic(len.r, f, size.panic)
               \* the product stays below 2^32 for the sizes of the model
               ELSE IF size.n * arrLen > len.r.len - len.r.pos
               THEN StepErr(len.r, f, ErrOutOfBounds)
               ELSE IF f.kind \notin {"list", "bytes"}
               THEN StepPanic(len.r, f, PanicMakeSlice)
               ELSE IF e.kind = "MessageField"
               THEN decodeItems(len.r, e.field, MakeSlice(f, arrLen), 1)
               ELSE decodeStructItems(len.r, e.descriptor, MakeSlice(f, arrLen), 1)
      [] OTHER -> StepErr(r, f, ErrTypeCorrupted)

\* The loop of decodeStruct over descriptor.Message.Fields, from field i on.
decodeFields(r, descriptor, v, fMap, i, optCounter, optBytes, optList) ==
    IF i > Len(descriptor.Message.Fields) THEN Step(r, v)
    ELSE LET field == descriptor.Message.Fields[i]
             bound == field.Name \in DOMAIN fMap
             f == IF bound THEN v.fields[fMap[field.Name]].value ELSE Invalid
             n == IF field.Optional THEN optCounter + 1 ELSE optCounter
         IN IF field.Optional /\ OptionalOverrun(optCounter, optBytes)
            THEN StepErr(r, v, ErrOptionalCorrupted)
            ELSE IF field.Optional /\ ~GetOpt(optCounter, optList)
            THEN decodeFields(r, descriptor, v, fMap, i + 1, n, optBytes, optList)
            ELSE LET s == decodeSingle(r, field, f)
                     v1 == IF bound THEN [v EXCEPT !.fields[fMap[field.Name]].value = s.f]
                           ELSE v
                 IN IF Stopped(s.r) THEN Step(s.r, v1)
                    ELSE decodeFields(s.r, descriptor, v1, fMap, i + 1, n, optBytes, optList)

decodeStruct(r, descriptor, v) ==
    IF v.kind # "struct" THEN StepErr(r, v, ErrInvalidResultPointer)
    ELSE LET fm == computeFieldMap(v)
             optList == ReadBytes(r, OptFlagLength(descriptor))
         IN IF fm.err # "nil" THEN StepErr(r, v, fm.err)
            ELSE IF Stopped(optList.r) THEN Step(optList.r, v)
            ELSE decodeFields(optList.r, descriptor, v, fm.m, 1, 0,
                              OptFlagLength(descriptor), optList.bytes)

PointerTo(v) == [kind |-> "ptr", elem |-> v]

\* Reader.Decode(res): the error (or the panic that leaves the call), the
\* cursor, and the struct res points to after the call.
Decode(r, res) ==
    IF res.kind # "ptr"
    THEN [err |-> ErrInvalidResultObject, panic |-> NoPanic, pos |-> 0, value |-> res]
    ELSE LET s == decodeStruct([r EXCEPT !.pos = 0], r.descriptor, res.elem)
         IN [err |-> s.r.err, panic |-> s.r.panic, pos |-> s.r.pos, value |-> s.f]

----------------------------------------------------------------------------
(* src/encoder/decode.go and src/exp/encoder/decode.go: the two other
   decoders of the repository. Both have the loop of Decode, the readers and
   the switch of decodeSingle in common; they differ in the Go type asserted
   for the parameter of FixedBinary and in the way a slot is written
   (reflect in the first, unsafe pointers in the second). `pkg` names the
   package. Their Reader counts availableLen down as pos goes up, which is
   the test of ReadBytes above. *)

PkgEncoder == "encoder"
PkgExp == "exp/encoder"

PanicSetBytes == "reflect.Value.SetBytes of non-byte slice"

\* f.SetBytes(bytes) of src/encoder/decode.go
SetBytes(rd, f) ==
    IF Stopped(rd.r) \/ f.kind = "invalid" THEN Step(rd.r, f)
    ELSE IF f.kind = "bytes" THEN Step(rd.r, BytesValue(rd.bytes))
    ELSE IF f.kind = "list" THEN StepPanic(rd.r, f, PanicSetBytes)
    ELSE StepPanic(rd.r, f, PanicValueError)

\* *(*T)(unsafe.Pointer(basePtr + fEntry.Offset)) = x of src/exp: the slot
\* takes the value when it is of the type T of the field. (A slot of another
\* type is not written in any call of the model.)
UnsafeStore(rd, f, kind) ==
    IF Stopped(rd.r) \/ f.kind = "invalid" THEN Step(rd.r, f)
    ELSE CASE f.kind = kind /\ kind = "bytes" -> Step(rd.r, BytesValue(rd.bytes))
           [] f.kind = kind /\ Len(f.bytes) = Len(rd.bytes) ->
                 Step(rd.r, [f EXCEPT !.bytes = rd.bytes])

\* The slots of the struct bound to a field of the descriptor have the Go
\* type the unsafe store of the field writes.
SlotsOfFieldTypes(descriptor, v) ==
    \A i \in DOMAIN descriptor.Message.Fields : \A j \in DOMAIN v.fields :
        LET field == descriptor.Message.Fields[i]
            f == v.fields[j].value
        IN (v.fields[j].tag = field.Name /\ field.Type \in ScalarTypes)
           => IF field.Type \in {TypeFixedBinary, TypeDynamicBinary, TypeLongBinary}
              THEN f.kind = "bytes"
              ELSE /\ f.kind = (IF field.Type \in {TypeInt64, TypeInt32, TypeInt16}
                                THEN "int" ELSE "uint")
                   /\ Len(f.bytes) = (CASE field.Type \in {TypeUInt64, TypeInt64} -> 8
                                        [] field.Type \in {TypeUInt32, TypeInt32} -> 4
                                        [] OTHER -> 2)

\* decodeSingle of the package, with f the slot of the field (Invalid when
\* the map has no entry for it).
decodeSingleOf(pkg, r, field, f) ==
    LET bin(rd) == IF pkg = PkgEncoder THEN SetBytes(rd, f) ELSE UnsafeStore(rd, f, "bytes")
        num(rd, signed) ==
            IF pkg = PkgEncoder THEN StoreNumber(rd, f, signed)
            ELSE UnsafeStore(rd, f, IF signed THEN "int" ELSE "uint")
    IN CASE field.Type = TypeFixedBinary ->
               IF field.Extra.kind # (IF pkg = PkgEncoder THEN "uint32" ELSE "int")
               THEN StepPanic(r, f, PanicTypeAssertion)
               ELSE bin(ReadBytes(r, field.Extra.n))
         [] field.Type = TypeDynamicBinary ->
               LET len == ReadBytes(r, 2)
               IN IF Stopped(len.r) THEN Step(len.r, f)
                  ELSE bin(ReadBytes(len.r, Uint16(len.bytes)))
         [] field.Type = TypeLongBinary ->
               LET len == ReadBytes(r, 4)
               IN IF Stopped(len.r) THEN Step(len.r, f)
                  ELSE bin(ReadBytes32(len.r, len.bytes))
         [] field.Type = TypeUInt64 -> num(ReadBytes(r, 8), FALSE)
         [] field.Type = TypeInt64 -> num(ReadBytes(r, 8), TRUE)
         [] field.Type = TypeUInt32 -> num(ReadBytes(r, 4), FALSE)
         [] field.Type = TypeInt32 -> num(ReadBytes(r, 4), TRUE)
         [] field.Type = TypeUInt16 -> num(ReadBytes(r, 2), FALSE)
         [] field.Type = TypeInt16 -> num(ReadBytes(r, 2), TRUE)
         [] OTHER -> StepErr(r, f, ErrTypeCorrupted)

\* The loop of Decode over descriptor.Message.Fields, from field i on. The
\* error decodeSingle returns is not assigned: the loop goes on with the
\* next field. `dropped` keeps those errors.
RECURSIVE decodeFieldsOf(_, _, _, _, _, _, _, _, _, _)
decodeFieldsOf(pkg, r, descriptor, v, fMap, i, optCounter, optBytes, optList, dropped) ==
    IF i > Len(descriptor.Message.Fields) THEN [r |-> r, f |-> v, dropped |-> dropped]
    ELSE LET field == descriptor.Message.Fields[i]
             bound == field.Name \in DOMAIN fMap
             f == IF bound THEN v.fields[fMap[field.Name]].value ELSE Invalid
             n == IF field.Optional THEN optCounter + 1 ELSE optCounter
         IN IF field.Optional /\ OptionalOverrun(optCounter, optBytes)
            THEN [r |-> [r EXCEPT !.err = ErrOptionalCorrupted], f |-> v, dropped |-> dropped]
            ELSE IF field.Optional /\ ~GetOpt(optCounter, optList)
            THEN decodeFieldsOf(pkg, r, descriptor, v, fMap, i + 1, n, optBytes, optList,
                                dropped)
            ELSE LET s == decodeSingleOf(pkg, r, field, f)
                     v1 == IF bound THEN [v EXCEPT !.fields[fMap[field.Name]].value = s.f]
                           ELSE v
                 IN IF s.r.panic # NoPanic THEN [r |-> s.r, f |-> v1, dropped |-> dropped]
                    ELSE decodeFieldsOf(pkg, [s.r EXCEPT !.err = "nil"], descriptor, v1, fMap,
                                        i + 1, n, optBytes, optList,
                                        IF s.r.err # "nil" THEN Append(dropped, s.r.err)
                                        ELSE dropped)

\* Reader.Decode(descriptor, res) of the package on a new reader of the
\* buffer: the error (or the panic that leaves the call), the cursor, the
\* struct res points to, and the errors of fields that were dropped.
DecodeOf(pkg, buffer, descriptor, res) ==
    LET r == NewReader(buffer, descriptor)
        out(e) == [err |-> e, panic |-> NoPanic, pos |-> 0, value |-> res.elem,
                   dropped |-> <<>>]
    IN IF res.kind # "ptr" \/ res.elem.kind # "struct" THEN out(ErrInvalidResultObject)
       ELSE LET fm == computeFieldMap(res.elem)
                optBytes == OptFlagLength(descriptor)
                optList == ReadBytes(r, optBytes)
            IN IF fm.err # "nil" THEN out(fm.err)
               ELSE IF Stopped(optList.r) THEN out(optList.r.err)
               ELSE LET s == decodeFieldsOf(pkg, optList.r, descriptor, res.elem, fm.m,
                                            1, 0, optBytes, optList.bytes, <<>>)
                    IN [err |-> s.r.err, panic |-> s.r.panic, pos |-> s.r.pos,
                        value |-> s.f, dropped |-> s.dropped]

----------------------------------------------------------------------------
(* The peer's encoder: the body a conforming peer writes for a record, from
   the wire format of the specification (4.2). It stands for no code of the
   repository; the decoder is given its bodies. *)

\* The parts lo..hi one after the other (the range is halved).
RECURSIVE ConcatRange(_, _, _)
ConcatRange(parts, lo, hi) ==
    IF lo > hi THEN <<>>
    ELSE IF lo = hi THEN parts[lo]
    ELSE ConcatRange(parts, lo, (lo + hi) \div 2)
         \o ConcatRange(parts, (lo + hi) \div 2 + 1, hi)

Concat(parts) == ConcatRange(parts, 1, Len(parts))

RECURSIVE BitsValue(_, _)
BitsValue(bits, j) ==
    IF j > 7 THEN 0 ELSE (IF j \in bits THEN 2 ^ j ELSE 0) + BitsValue(bits, j + 1)

WireOk(bytes) == [ok |-> TRUE, bytes |-> bytes]
WireNone == [ok |-> FALSE, bytes |-> <<>>]

IsBinary(f) == f.kind \in {"bytes", "string", "bytearray"}

WireWidth ==
    (TypeUInt64 :> 8) @@ (TypeInt64 :> 8) @@ (TypeUInt32 :> 4) @@ (TypeInt32 :> 4)
    @@ (TypeUInt16 :> 2) @@ (TypeInt16 :> 2)

SignedTypes == {TypeInt64, TypeInt32, TypeInt16}

RECURSIVE WireStruct(_, _)
RECURSIVE WireField(_, _)

WireField(field, f) ==
    CASE field.Type = TypeFixedBinary ->
            IF IsBinary(f) /\ Len(f.bytes) = field.Extra.n THEN WireOk(f.bytes) ELSE WireNone
      [] field.Type = TypeDynamicBinary ->
            IF IsBinary(f) /\ Len(f.bytes) <= MaxUint16
            THEN WireOk(PutUint16(Len(f.bytes)) \o f.bytes) ELSE WireNone
      [] field.Type = TypeLongBinary ->
            IF IsBinary(f) THEN WireOk(PutUint32(Len(f.bytes)) \o f.bytes) ELSE WireNone
      [] field.Type \in DOMAIN WireWidth ->
            IF f.kind = (IF field.Type \in SignedTypes THEN "int" ELSE "uint")
               /\ Len(f.bytes) = WireWidth[field.Type]
            THEN WireOk(f.bytes) ELSE WireNone
      [] field.Type = TypeObject -> WireStruct(field.Extra.descriptor, f)
      [] field.Type = TypeArray ->
            IF f.kind # "list" \/ Len(f.items) > MaxUint16 THEN WireNone
            ELSE LET e == field.Extra
                     item(i) ==
                        CASE e.kind = "MessageField" -> WireField(e.field, f.items[i])
                          [] e.kind = "SchemaMessage" ->
                                WireStruct(MessageDescriptor(0, e.message, FALSE), f.items[i])
                          [] e.kind = "MessageDescriptor" -> WireStruct(e.descriptor, f.items[i])
                          [] OTHER -> WireNone
                     parts == [i \in DOMAIN f.items |-> item(i)]
                 IN IF \A i \in DOMAIN parts : parts[i].ok
                    THEN WireOk(PutUint16(Len(f.items))
                                \o Concat([i \in DOMAIN parts |-> parts[i].bytes]))
                    ELSE WireNone
      [] OTHER -> WireNone

WireStruct(descriptor, v) ==
    IF v.kind # "struct" \/ computeFieldMap(v).err # "nil"
       \/ descriptor.OptionalCount # CountOptional(descriptor.Message)
    THEN WireNone
    ELSE LET fields == descriptor.Message.Fields
             fMap == computeFieldMap(v).m
             bound(i) == fields[i].Name \in DOMAIN fMap
             slot(i) == v.fields[fMap[fields[i].Name]].value
             present(i) == bound(i) /\ (~fields[i].Optional \/ ~IsZero(slot(i)))
             absent(i) == fields[i].Optional /\ ~present(i)
             k(i) == Cardinality({j \in 1..(i - 1) : fields[j].Optional})
             bits(b) == {k(i) - 8 * b : i \in {j \in DOMAIN fields :
                             fields[j].Optional /\ present(j)}}
             bitmap == [b \in 1..OptFlagLength(descriptor) |-> BitsValue(bits(b - 1), 0)]
             parts == [i \in DOMAIN fields |->
                          IF absent(i) THEN WireOk(<<>>)
                          ELSE IF ~bound(i) THEN WireNone
                          ELSE WireField(fields[i], slot(i))]
         IN IF \A i \in DOMAIN parts : parts[i].ok
            THEN WireOk(bitmap \o Concat([i \in DOMAIN parts |-> parts[i].bytes]))
            ELSE WireNone

WireEncode(descriptor, v) == WireStruct(descriptor, v)

----------------------------------------------------------------------------
(* Calls on the registry *)

CallRegisterInternal ==
    /\ Len(calls) < MaxCalls
    /\ LET res == RegisterInternal(reg)
       IN /\ reg' = res.reg
          /\ calls' = Append(calls, [op |-> "RegisterInternal", err |-> res.err])
    /\ prev' = reg
    /\ UNCHANGED <<schema, connVars, codecVars, cacheVars>>

CallRegisterSchema ==
    /\ Len(calls) < MaxCalls
    /\ LET res == RegisterSchema(reg, schema)
       IN /\ reg' = res.reg
          /\ calls' = Append(calls, [op |-> "RegisterSchema", err |-> res.err])
    /\ prev' = reg
    /\ UNCHANGED <<schema, connVars, codecVars, cacheVars>>

----------------------------------------------------------------------------
(* The descriptors and records of the codec specification *)

\* A message of two fields, one of them optional, and a struct for it.
ItemMessage ==
    SchemaMessage(InboundMessage, "item",
        << MessageField("x", TypeInt16, NilExtra, FALSE),
           MessageField("y", TypeInt16, NilExtra, TRUE) >>)

ItemValue ==
    StructValue(<< StructField("x", IntValue(<<5, 0>>)),
                   StructField("y", IntValue(<<9, 0>>)) >>)

\* A field of a descriptor with the slot a record has for it: the type, the
\* parameter and the flag of the field, the value of the slot, and whether
\* the slot carries the `ipc` tag of the field.
Choice(type, extra, optional, value, bound) ==
    [type |-> type, extra |-> extra, optional |-> optional, value |-> value,
     bound |-> bound]

Int16Item == MessageField("", TypeInt16, NilExtra, FALSE)
UInt16Item == MessageField("", TypeUInt16, NilExtra, FALSE)

BinaryChoices ==
    { Choice(TypeFixedBinary, IntExtra(2), FALSE, BytesValue(<<1, 2>>), TRUE),
      Choice(TypeFixedBinary, IntExtra(2), FALSE, BytesValue(<<1>>), TRUE),
      Choice(TypeFixedBinary, IntExtra(2), FALSE, ByteArrayValue(<<1, 2>>), TRUE),
      Choice(TypeDynamicBinary, NilExtra, FALSE, BytesValue(<<7>>), TRUE),
      Choice(TypeDynamicBinary, NilExtra, FALSE, StringValue(<<7>>), TRUE),
      Choice(TypeDynamicBinary, NilExtra, TRUE, BytesValue(<<7>>), TRUE),
      Choice(TypeDynamicBinary, NilExtra, TRUE, NilBytes, TRUE),
      Choice(TypeDynamicBinary, NilExtra, TRUE, BytesValue(<<>>), TRUE),
      Choice(TypeLongBinary, NilExtra, FALSE, BytesValue(<<8, 9>>), TRUE) }

IntegerChoices ==
    { Choice(TypeUInt64, NilExtra, FALSE, UintValue(<<1, 2, 3, 4, 5, 6, 7, 200>>), TRUE),
      Choice(TypeInt64, NilExtra, FALSE, IntValue(<<0, 0, 0, 0, 0, 0, 0, 128>>), TRUE),
      Choice(TypeUInt32, NilExtra, FALSE, UintValue(<<255, 255, 255, 255>>), TRUE),
      Choice(TypeInt32, NilExtra, FALSE, IntValue(<<254, 255, 255, 255>>), TRUE),
      Choice(TypeInt32, NilExtra, FALSE, IntValue(<<0, 0, 0, 0>>), TRUE),
      Choice(TypeInt32, NilExtra, FALSE, IntValue(<<3, 0, 0, 0>>), FALSE),
      Choice(TypeInt32, NilExtra, FALSE, UintValue(<<3, 0, 0, 0>>), TRUE),
      Choice(TypeInt32, NilExtra, TRUE, IntValue(<<3, 0, 0, 0>>), TRUE),
      Choice(TypeInt32, NilExtra, TRUE, IntValue(<<0, 0, 0, 0>>), TRUE),
      Choice(TypeInt32, NilExtra, TRUE, IntValue(<<3, 0, 0, 0>>), FALSE),
      Choice(TypeUInt16, NilExtra, FALSE, UintValue(<<255, 255>>), TRUE),
      Choice(TypeInt16, NilExtra, FALSE, IntValue(<<0, 128>>), TRUE) }

NestedChoices ==
    { Choice(TypeArray, FieldExtra(Int16Item), FALSE,
             ListValue(IntValue(<<0, 0>>), <<IntValue(<<98, 40>>), IntValue(<<38, 130>>)>>), TRUE),
      Choice(TypeArray, FieldExtra(Int16Item), TRUE, NilList(IntValue(<<0, 0>>)), TRUE),
      Choice(TypeArray, FieldExtra(UInt16Item), FALSE,
             ListValue(UintValue(<<0, 0>>), <<UintValue(<<1, 129>>)>>), TRUE),
      Choice(TypeObject, DescriptorExtra(MessageDescriptor(0, ItemMessage, FALSE)), FALSE,
             ItemValue, TRUE),
      Choice(TypeArray, MessageExtra(ItemMessage), FALSE,
             ListValue(ZeroOf(ItemValue), <<ItemValue>>), TRUE),
      Choice(TypeArray, DescriptorExtra(MessageDescriptor(0, ItemMessage, FALSE)), FALSE,
             ListValue(ZeroOf(ItemValue), <<ItemValue>>), TRUE) }

Choices == BinaryChoices \cup IntegerChoices \cup NestedChoices

MaxFields == 2          \* fields of a generated descriptor

FieldName(i) == "f" \o ToString(i)

\* The descriptor and the record made of a sequence of choices.
ChosenDescriptor(cs) ==
    MessageDescriptor(0,
        SchemaMessage(InboundMessage, "m",
            [i \in DOMAIN cs |->
                MessageField(FieldName(i), cs[i].type, cs[i].extra, cs[i].optional)]),
        FALSE)

ChosenRecord(cs) ==
    StructValue([i \in DOMAIN cs |->
                    StructField(IF cs[i].bound THEN FieldName(i) ELSE "", cs[i].value)])

ChoiceSeqs == UNION {[1..n -> Choices] : n \in 0..MaxFields}

\* decode_test.go: the message, the struct and the bytes of the tests.
sampleMsg ==
    SchemaMessage(InboundMessage, "sample",
        << MessageField("fixed", TypeFixedBinary, IntExtra(6), FALSE),
           MessageField("dynamic", TypeDynamicBinary, NilExtra, FALSE),
           MessageField("long", TypeLongBinary, NilExtra, FALSE),
           MessageField("uint64", TypeUInt64, NilExtra, FALSE),
           MessageField("int64", TypeInt64, NilExtra, FALSE),
           MessageField("uint32", TypeUInt32, NilExtra, FALSE),
           MessageField("int32", TypeInt32, NilExtra, FALSE),
           MessageField("uint16", TypeUInt16, NilExtra, FALSE),
           MessageField("int16", TypeInt16, NilExtra, FALSE),
           MessageField("array", TypeArray, FieldExtra(Int16Item), FALSE) >>)

sampleDesc == MessageDescriptor(0, sampleMsg, FALSE)

expectedBin == <<98, 117, 102, 102, 101, 114>>

Ones(n) == [i \in 1..n |-> 255]

\* The values the tests expect, in a sampleStruct.
sampleStruct ==
    StructValue(
        << StructField("long", BytesValue(expectedBin)),
           StructField("uint64", UintValue(Ones(8))),
           StructField("int64", IntValue(Ones(8))),
           StructField("dynamic", BytesValue(expectedBin)),
           StructField("uint32", UintValue(Ones(4))),
           StructField("fixed", BytesValue(expectedBin)),
           StructField("int32", IntValue(Ones(4))),
           StructField("uint16", UintValue(Ones(2))),
           StructField("int16", IntValue(Ones(2))),
           StructField("array", ListValue(IntValue(<<0, 0>>),
                                          <<IntValue(<<98, 40>>), IntValue(<<38, 130>>)>>)) >>)

sampleBuf ==
    expectedBin \o <<6, 0>> \o expectedBin \o <<6, 0, 0, 0>> \o expectedBin
    \o Ones(8) \o Ones(8) \o Ones(4) \o Ones(4) \o Ones(2) \o Ones(2)
    \o <<2, 0, 98, 40, 38, 130>>

\* decode_test.go: the struct and the bytes of TestA.
messageField ==
    StructValue(<< StructField("name", NilBytes),
                   StructField("type", UintValue(<<0, 0>>)),
                   StructField("extra", NilBytes),
                   StructField("optional", UintValue(<<0, 0>>)) >>)

messageDescriptor ==
    StructValue(<< StructField("id", UintValue(<<0, 0, 0, 0>>)),
                   StructField("internal", UintValue(<<0, 0>>)),
                   StructField("direction", UintValue(<<0, 0>>)),
                   StructField("name", NilBytes),
                   StructField("fields", NilList(messageField)) >>)

helloOutbound ==
    StructValue(<< StructField("minVersion", IntValue(<<0, 0, 0, 0>>)),
                   StructField("currVersion", IntValue(<<0, 0, 0, 0>>)),
                   StructField("schema", NilList(messageDescriptor)) >>)

sampleBuf2 ==
    <<0, 0, 0, 0>> \o <<0, 0, 0, 0>> \o <<1, 0>>
    \o <<2, 0, 0, 0>> \o <<1, 0>> \o <<1, 0>> \o <<13, 0>>
    \o <<80, 114, 111, 116, 111, 99, 111, 108, 69, 114, 114, 111, 114>>
    \o <<1, 0>>
    \o <<7, 0>> \o <<109, 101, 115, 115, 97, 103, 101>>
    \o <<1, 0>> \o <<0, 0, 0, 0>> \o <<0, 0>>

\* Records at and past the limits of the 16-bit prefixes.
LimitChoices ==
    { Choice(TypeDynamicBinary, NilExtra, FALSE, BytesValue(Zeros(n)), TRUE)
        : n \in {MaxUint16, MaxUint16 + 1} }
    \cup
    { Choice(TypeArray, FieldExtra(Int16Item), FALSE,
             ListValue(IntValue(<<0, 0>>), [i \in 1..n |-> IntValue(<<1, 2>>)]), TRUE)
        : n \in {MaxUint16, MaxUint16 + 1} }

----------------------------------------------------------------------------
(* Calls on the codec *)

\* Encode(msgDesc, record)
CallEncode ==
    /\ phase \in {"start", "limit"}
    /\ encoded' = Encode(msgDesc, record)
    /\ phase' = IF phase = "limit" THEN "done" ELSE "encoded"
    /\ UNCHANGED <<regVars, connVars, cacheVars, msgDesc, record, body, target, decoded>>

\* The bodies to decode: the bytes Encode returned and the peer's body.
Bodies ==
    (IF encoded.err = "nil" THEN {encoded.bytes.bytes} ELSE {})
    \cup (IF WireEncode(msgDesc, record).ok THEN {WireEncode(msgDesc, record).bytes} ELSE {})

\* The struct v without the tag of its field i (all tags kept for i = 0).
Unbind(v, i) ==
    IF i = 0 THEN v ELSE [v EXCEPT !.fields[i].tag = ""]

\* NewReader(b, msgDesc).Decode(&t) with b the first n bytes of the body src.
DecodeCall(src, n, t) ==
    /\ body' = SubSeq(src, 1, n)
    /\ target' = t
    /\ decoded' = [res |-> Decode(NewReader(body', msgDesc), PointerTo(t)),
                   full |-> src]
    /\ phase' = "decoded"
    /\ UNCHANGED <<regVars, connVars, cacheVars, msgDesc, record, encoded>>

\* A whole body decoded into a zero record of the type of the encoded one.
CallDecode ==
    /\ phase = "encoded"
    /\ \E src \in Bodies : DecodeCall(src, Len(src), ZeroOf(record))

\* A body cut short.
CallDecodeTruncated ==
    /\ phase = "encoded"
    /\ \E src \in Bodies : \E n \in 0..(Len(src) - 1) :
          DecodeCall(src, n, ZeroOf(record))

\* A whole body decoded into a record that has no binding for one field.
CallDecodeUnbound ==
    /\ phase = "encoded"
    /\ \E src \in Bodies : \E i \in DOMAIN record.fields :
          /\ record.fields[i].tag # ""
          /\ DecodeCall(src, Len(src), Unbind(ZeroOf(record), i))

\* TestA: RegisterInternal on a new registry, then Decode of sampleBuf2 with
\* the descriptor of ID 1 into a helloOutbound.
TestA ==
    /\ phase = "test"
    /\ LET sampleRegistry == RegisterInternal(NewRegistry).reg
           sampleDesc2 == sampleRegistry.Descriptors[1]
       IN /\ msgDesc' = sampleDesc2
          /\ body' = sampleBuf2
          /\ target' = record
          /\ decoded' = [res |-> Decode(NewReader(sampleBuf2, sampleDesc2), PointerTo(record)),
                         full |-> sampleBuf2]
    /\ phase' = "tested"
    /\ UNCHANGED <<regVars, connVars, cacheVars, record, encoded>>

\* Decode of one of the two other decoders on the first n bytes of src.
DecodeCallOf(pkg, src, n, t) ==
    /\ body' = SubSeq(src, 1, n)
    /\ target' = t
    /\ decoded' = [res |-> DecodeOf(pkg, body', msgDesc, PointerTo(t)), full |-> src]
    /\ phase' = "decoded by " \o pkg
    /\ UNCHANGED <<regVars, connVars, cacheVars, msgDesc, record, encoded>>

\* src/encoder/decode.go: a body of the peer, whole or cut short.
CallDecodeEncoder ==
    /\ phase = "encoded"
    /\ WireEncode(msgDesc, record).ok
    /\ LET src == WireEncode(msgDesc, record).bytes
       IN \E n \in 0..Len(src) : DecodeCallOf(PkgEncoder, src, n, ZeroOf(record))

\* src/exp/encoder/decode.go: a body of the peer, whole or cut short,
\* decoded into a struct whose fields are of the types of the message.
CallDecodeExp ==
    /\ phase = "encoded"
    /\ WireEncode(msgDesc, record).ok
    /\ SlotsOfFieldTypes(msgDesc, record)
    /\ LET src == WireEncode(msgDesc, record).bytes
       IN \E n \in 0..Len(src) : DecodeCallOf(PkgExp, src, n, ZeroOf(record))

----------------------------------------------------------------------------
(* Calls of computeFieldMap by concurrent goroutines *)

\* computeFieldMap(t) up to the Load: a hit returns the cached map.
CacheLoad(g) ==
    /\ routine[g].pc = "idle"
    /\ routine[g].uses < MaxUses
    /\ \E t \in CacheTypes :
          LET r == [routine[g] EXCEPT !.t = t, !.uses = @ + 1, !.fMap = NilMap]
              cached == Load(typeCache, t)
          IN routine' = [routine EXCEPT ![g] =
                            IF cached.ok THEN Return(r, cached.value, "nil")
                            ELSE [r EXCEPT !.pc = "compute"]]
    /\ UNCHANGED <<regVars, connVars, codecVars, typeCache>>

\* The loop over the fields of the type: a duplicate tag returns the error.
CacheCompute(g) ==
    /\ routine[g].pc = "compute"
    /\ LET r == routine[g]
           fm == computeFieldMap(r.t)
       IN routine' = [routine EXCEPT ![g] =
                         IF fm.err # "nil" THEN Return(r, NilMap, fm.err)
                         ELSE [r EXCEPT !.pc = "store",
                                        !.fMap = MakeMap(g, r.uses, fm.m)]]
    /\ UNCHANGED <<regVars, connVars, codecVars, typeCache>>

\* cached, _ = typeCache.LoadOrStore(t, fMap); return cached
CacheLoadOrStore(g) ==
    /\ routine[g].pc = "store"
    /\ LET r == routine[g]
           stored == LoadOrStore(typeCache, r.t, r.fMap)
       IN /\ typeCache' = stored.cache
          /\ routine' = [routine EXCEPT ![g] = Return(r, stored.actual, "nil")]
    /\ UNCHANGED <<regVars, connVars, codecVars>>

----------------------------------------------------------------------------
(* Specifications *)

InitConn ==
    /\ state = ConnWaitHello
    /\ pc = "header"
    /\ hdr = nullHeader
    /\ inbuf = <<>>
    /\ rpos = 0
    /\ peerClosed = FALSE
    /\ closed = FALSE
    /\ err = "nil"
    /\ outbuf = <<>>
    /\ log = <<>>
    /\ sent = <<>>

\* No call on the codec has returned.
NoResults ==
    /\ encoded = [bytes |-> NilSlice, err |-> "nil"]
    /\ body = <<>>
    /\ target = StructValue(<<>>)
    /\ decoded = [res |-> [err |-> "nil", panic |-> NoPanic, pos |-> 0,
                           value |-> StructValue(<<>>)],
                  full |-> <<>>]

\* No call on the codec is made.
IdleCodec ==
    /\ msgDesc = MessageDescriptor(0, SchemaMessage(InboundMessage, "", <<>>), FALSE)
    /\ record = StructValue(<<>>)
    /\ NoResults
    /\ phase = "idle"

\* No goroutine has called computeFieldMap: the cache is empty.
IdleCache ==
    /\ typeCache = [t \in CacheTypes |-> NoEntry]
    /\ routine = [g \in Routines |-> IdleRoutine]

\* A connection accepted by a server after Server.Init.
Init ==
    /\ schema = ServedSchema
    /\ reg \in {BindHandlers(ServerInit(schema).reg, h) : h \in HandlerSets}
    /\ calls = <<>>
    /\ prev = NewRegistry
    /\ policy \in {MessageOverflowDiscard, MessageOverflowTerminate}
    /\ InitConn
    /\ IdleCodec
    /\ IdleCache

Next == HandleConnection \/ Peer

Spec == Init /\ [][Next]_vars

\* The connection task is a goroutine of its own: it runs whenever it can.
FairSpec == Spec /\ WF_vars(HandleConnection)

\* A registry at its zero value, before any call.
InitRegistry ==
    /\ schema \in Schemas
    /\ reg = NewRegistry
    /\ calls = <<>>
    /\ prev = NewRegistry
    /\ policy = MessageOverflowDiscard
    /\ InitConn
    /\ IdleCodec
    /\ IdleCache

NextRegistry ==
    \/ CallRegisterInternal
    \/ CallRegisterSchema

SpecRegistry == InitRegistry /\ [][NextRegistry]_vars

\* A caller of the codec holding a descriptor and a record of a struct type.
InitCodec ==
    /\ schema = ServedSchema
    /\ reg = NewRegistry
    /\ calls = <<>>
    /\ prev = NewRegistry
    /\ policy = MessageOverflowDiscard
    /\ InitConn
    /\ NoResults
    /\ IdleCache
    /\ \/ \E cs \in ChoiceSeqs :
             /\ msgDesc = ChosenDescriptor(cs)
             /\ record = ChosenRecord(cs)
             /\ phase = "start"
       \/ msgDesc = sampleDesc /\ record = sampleStruct /\ phase = "start"
       \/ \E c \in LimitChoices :
             /\ msgDesc = ChosenDescriptor(<<c>>)
             /\ record = ChosenRecord(<<c>>)
             /\ phase = "limit"
       \/ /\ msgDesc = MessageDescriptor(0, SchemaMessage(InboundMessage, "", <<>>), FALSE)
          /\ record = helloOutbound
          /\ phase = "test"

NextCodec ==
    \/ CallEncode
    \/ CallDecode
    \/ CallDecodeTruncated
    \/ CallDecodeUnbound
    \/ CallDecodeEncoder
    \/ CallDecodeExp
    \/ TestA

SpecCodec == InitCodec /\ [][NextCodec]_vars

\* Goroutines using the codec at the same time: the steps of their calls of
\* computeFieldMap interleave in any order.
InitCache ==
    /\ schema = ServedSchema
    /\ reg = NewRegistry
    /\ calls = <<>>
    /\ prev = NewRegistry
    /\ policy = MessageOverflowDiscard
    /\ InitConn
    /\ IdleCodec
    /\ IdleCache

NextCache ==
    \E g \in Routines :
        \/ CacheLoad(g)
        \/ CacheCompute(g)
        \/ CacheLoadOrStore(g)

SpecCache == InitCache /\ [][NextCache]_vars

----------------------------------------------------------------------------
(* Properties of the connection loop (Spec, FairSpec) *)

Known(id) == id \in DOMAIN reg.Descriptors

\* nextMessage has returned from its i-th call.
Returned(i) == i < Len(log) \/ pc \in {"header", "done"}

\* The i-th call read a header and the frame passed the size check.
Sized(i) == log[i].ok /\ log[i].len <= MaxMessageSize

\* The stream holds the whole body of the frame of the i-th call.
BodySent(i) == Len(inbuf) >= log[i].off + 8 + log[i].len

\* The i-th call ended the loop with error e and the endpoint is closed.
ClosedBy(i, e) ==
    /\ i = Len(log)
    /\ log[i].kind = "return" /\ log[i].err = e
    /\ pc = "done" /\ closed /\ err = e

\* The server has written a frame header with message ID 1 at a frame start.
HasOutboundHello ==
    Len(outbuf) >= 8 /\ Uint32(SubSeq(outbuf, 5, 8)) = 1

\* C1: once a connection in WaitHello has received a well-formed inbound Hello
\* frame (ID 0, payload_length <= MaxMessageSize, whole body, no handler
\* error), its state is Established and an outbound Hello frame (ID 1) has
\* been written to the peer.
C1_HelloEstablishes ==
    \A i \in DOMAIN log :
        (Sized(i) /\ log[i].st = ConnWaitHello /\ log[i].id = 0
            /\ Returned(i) /\ log[i].err = "nil" /\ log[i].body = log[i].len)
        => (state = ConnEstablished /\ HasOutboundHello)

\* The i-th call met a user message (non-internal, Inbound or Duplex) in WaitHello.
UserInWaitHello(i) ==
    /\ Sized(i) /\ log[i].st = ConnWaitHello /\ Known(log[i].id)
    /\ ~reg.Descriptors[log[i].id].Internal
    /\ reg.Descriptors[log[i].id].Message.Direction \in {InboundMessage, DuplexMessage}

\* C2: in WaitHello a frame within the size limit whose ID resolves to a
\* non-internal Inbound or Duplex descriptor makes nextMessage return
\* ErrInvalidDescriptor, which ends the loop; the body is not read (the cursor
\* stays right after the header) and no handler is invoked.
C2_StateGuard ==
    \A i \in DOMAIN log :
        UserInWaitHello(i)
        => /\ ClosedBy(i, ErrInvalidDescriptor)
           /\ log[i].body = 0 /\ ~log[i].handled
           /\ rpos = log[i].off + 8

\* A user message with a bound handler and its body on the stream was refused.
C2_Witness ==
    \E i \in DOMAIN log :
        /\ UserInWaitHello(i)
        /\ reg.Descriptors[log[i].id].Handler = "bound"
        /\ log[i].len > 0 /\ BodySent(i)
        /\ closed

OutboundFrame(i) ==
    /\ Sized(i) /\ Known(log[i].id)
    /\ reg.Descriptors[log[i].id].Message.Direction = OutboundMessage

\* C3: a frame within the size limit whose ID resolves to an Outbound
\* descriptor (the internal outbound Hello, ID 1, included) makes nextMessage
\* return the invalid-direction error and the connection closes, in either
\* connection state; the check comes before the WaitHello guard, so an
\* outbound user message in WaitHello is reported as invalid direction.
C3_DirectionGuard ==
    /\ \A i \in DOMAIN log :
          OutboundFrame(i)
          => ClosedBy(i, ErrSentInvalidDirection) /\ log[i].body = 0 /\ ~log[i].handled
    /\ \A st \in ConnStates, len \in 0..MaxMessageSize, id \in DOMAIN reg.Descriptors :
          reg.Descriptors[id].Message.Direction = OutboundMessage
          => checkHeader(st, [PacketLength |-> len, MessageType |-> id])
               = [kind |-> "return", err |-> ErrSentInvalidDirection, out |-> <<>>]

\* An outbound user message arrived in WaitHello and closed the connection.
C3_Witness ==
    \E i \in DOMAIN log :
        /\ OutboundFrame(i) /\ ~reg.Descriptors[log[i].id].Internal
        /\ log[i].st = ConnWaitHello
        /\ closed /\ err = ErrSentInvalidDirection

\* C4: a frame within the size limit whose message_type_id is not a key of
\* the descriptor map makes nextMessage return an error and the connection
\* closes, in either connection state; no body byte is read and no handler is
\* invoked.
C4_UnknownDescriptor ==
    /\ \A i \in DOMAIN log :
          (Sized(i) /\ ~Known(log[i].id))
          => /\ i = Len(log) /\ log[i].kind = "return" /\ log[i].err # "nil"
             /\ pc = "done" /\ closed /\ err = log[i].err
             /\ log[i].body = 0 /\ ~log[i].handled /\ rpos = log[i].off + 8
    /\ \A st \in ConnStates, len \in 0..MaxMessageSize :
          LET r == checkHeader(st, [PacketLength |-> len, MessageType |-> UnknownID])
          IN r.kind = "return" /\ r.err # "nil"

\* A frame of unknown ID, its body on the stream, closed the connection.
C4_Witness ==
    \E i \in DOMAIN log :
        /\ Sized(i) /\ log[i].id = UnknownID
        /\ log[i].len > 0 /\ BodySent(i)
        /\ closed /\ rpos = log[i].off + 8

\* C5: for a frame with payload_length > MaxMessageSize: under Discard the
\* call returns nil whatever the ID, the direction and the connection state,
\* payload_length body bytes are consumed when the stream holds them, the
\* state is unchanged, the loop goes on and the next header is read right
\* after the dropped body; under Terminate nextMessage returns ErrMsgLength
\* and the connection closes. payload_length = MaxMessageSize is no overflow.
C5_OverflowPolicy ==
    /\ \A i \in DOMAIN log :
          (log[i].ok /\ log[i].len > MaxMessageSize)
          => IF policy = MessageOverflowDiscard
             THEN /\ log[i].kind = "overflow" /\ log[i].err = "nil" /\ ~log[i].handled
                  /\ state = log[i].st
                  /\ (Returned(i) /\ BodySent(i)) => log[i].body = log[i].len
                  /\ (Returned(i) /\ i = Len(log))
                        => (pc = "header" /\ ~closed /\ rpos = log[i].off + 8 + log[i].body)
                  /\ i < Len(log) => log[i + 1].off = log[i].off + 8 + log[i].body
             ELSE ClosedBy(i, ErrMsgLength) /\ log[i].body = 0
    /\ \A i \in DOMAIN log :
          (log[i].ok /\ log[i].len = MaxMessageSize)
          => log[i].kind # "overflow" /\ log[i].err # ErrMsgLength
    /\ \A st \in ConnStates, id \in FrameIDs :
          LET over == checkHeader(st, [PacketLength |-> MaxMessageSize + 1, MessageType |-> id])
              atMax == checkHeader(st, [PacketLength |-> MaxMessageSize, MessageType |-> id])
          IN /\ over = IF policy = MessageOverflowDiscard
                       THEN [kind |-> "overflow", err |-> "nil", out |-> <<>>]
                       ELSE [kind |-> "return", err |-> ErrMsgLength, out |-> <<>>]
             /\ atMax.kind # "overflow" /\ atMax.err # ErrMsgLength

\* An oversized frame of unknown ID was dropped whole, and the header of the
\* frame behind it was read and accepted.
C5_Witness ==
    /\ policy = MessageOverflowDiscard
    /\ \E i \in DOMAIN log :
          /\ log[i].ok /\ log[i].len > MaxMessageSize /\ log[i].id = UnknownID
          /\ log[i].body = log[i].len
          /\ i < Len(log) /\ log[i + 1].ok /\ log[i + 1].err = "nil"
          /\ log[i + 1].len = MaxMessageSize

\* The header of the i-th call is the header of a frame the peer wrote there.
AtBoundary(i) ==
    \E j \in DOMAIN sent :
        /\ sent[j].off = log[i].off
        /\ sent[j].len = log[i].len /\ sent[j].id = log[i].id
        /\ sent[j].n >= 8

\* C6: the framed reader stays synchronized with the stream: every frame that
\* was dispatched to a handler, dropped for want of a handler or dropped as
\* oversized, and whose body the stream holds, consumes exactly
\* 8 + payload_length bytes; every header is read at a frame boundary and is
\* the header the peer wrote there; when the stream ends before the body is
\* complete, no further header is read: the loop has ended, or is at the read
\* that fails.
C6_FrameSync ==
    /\ \A i \in DOMAIN log :
          log[i].ok => AtBoundary(i)
    /\ \A i \in DOMAIN log :
          (log[i].ok /\ log[i].kind # "return" /\ Returned(i) /\ BodySent(i))
          => /\ log[i].body = log[i].len
             /\ i < Len(log) => log[i + 1].off = log[i].off + 8 + log[i].len
             /\ (i = Len(log) /\ ~closed) => rpos = log[i].off + 8 + log[i].len
    /\ \A i \in DOMAIN log :
          (log[i].ok /\ log[i].kind # "return" /\ Returned(i) /\ ~BodySent(i))
          => /\ peerClosed /\ rpos = Len(inbuf)
             /\ \A k \in DOMAIN log : k > i => ~log[k].ok
             /\ closed \/ (pc = "header" /\ Avail = 0)

\* A frame went to its handler, and the header of the oversized frame behind
\* it was read and its body dropped, which leaves the cursor at the end of
\* the stream.
C6_Witness ==
    /\ Len(log) = 2 /\ pc = "header" /\ ~closed
    /\ log[1].kind = "payload" /\ log[1].handled /\ log[1].len > 0
    /\ log[2].kind = "overflow" /\ log[2].body = log[2].len
    /\ rpos = Len(inbuf)

\* The stream ended inside the body of a frame that was being dropped.
C6_WitnessShort ==
    \E i \in DOMAIN log :
        /\ log[i].ok /\ log[i].kind = "discard" /\ Returned(i) /\ ~BodySent(i)
        /\ closed

\* C7: the connection loop never writes a byte to the peer as a consequence
\* of a protocol violation (unknown ID, outbound direction, user message in
\* WaitHello, oversized frame, short header or body): the step that ends the
\* loop leaves the bytes written to the peer as they were.
C7_NoErrorOnWire ==
    [][(closed' /\ ~closed) => outbuf' = outbuf]_vars

\* The loop was ended by a violation and nothing was written.
C7_Witness ==
    /\ closed /\ outbuf = <<>>
    /\ err \in {ErrInvalidDescriptor, ErrSentInvalidDirection, ErrMsgLength,
                ErrEOF, ErrUnexpectedEOF}
    /\ Len(log) >= 2

\* C8: a connection task leaves its message loop on the first error returned
\* by message processing and then closes its endpoint; after that no further
\* frame is read or dispatched on that connection; and if the peer closes the
\* stream the task eventually exits with the endpoint closed.
C8_ExitOnError ==
    /\ [](\A i \in DOMAIN log : log[i].err # "nil" => (i = Len(log) /\ closed /\ pc = "done"))
    /\ [](closed <=> err # "nil")
    /\ [][closed => (closed' /\ pc' = "done" /\ rpos' = rpos /\ log' = log
                      /\ state' = state /\ err' = err)]_vars
    /\ (peerClosed ~> closed)

\* The loop ended on a handler error while unread frames were on the stream.
C8_Witness ==
    /\ closed /\ err = ErrHandler
    /\ Avail >= 8

----------------------------------------------------------------------------
(* Properties of the registry (SpecRegistry) *)

Ok(k, op) == calls[k].op = op /\ calls[k].err = "nil"

IsMessage(d, direction, name) ==
    d.Message.Direction = direction /\ d.Message.Name = name

\* C9: after RegisterInternal() followed by RegisterSchema(S) both succeed,
\* the keys of the descriptor map are exactly 0..2+|S|, each descriptor's ID
\* is its key, IDs 0, 1, 2 are inbound Hello, outbound Hello and duplex Ping
\* with Internal = true, and the i-th message of S (from 0) has ID 3+i with
\* Internal = false.
C9_RegistryDensity ==
    \A k \in 1..(Len(calls) - 1) :
        (Ok(k, "RegisterInternal") /\ Ok(k + 1, "RegisterSchema"))
        => LET n == Len(schema.Messages)
               D == reg.Descriptors
           IN /\ DOMAIN D = 0..(2 + n)
              /\ \A id \in DOMAIN D : D[id].ID = id
              /\ IsMessage(D[0], InboundMessage, "Hello") /\ D[0].Internal
              /\ IsMessage(D[1], OutboundMessage, "Hello") /\ D[1].Internal
              /\ IsMessage(D[2], DuplexMessage, "Ping") /\ D[2].Internal
              /\ \A i \in 0..(n - 1) :
                    /\ D[3 + i].Message = schema.Messages[i + 1]
                    /\ ~D[3 + i].Internal

\* Both calls succeeded with a user schema of the largest size.
C9_Witness ==
    /\ Len(calls) >= 2
    /\ Ok(1, "RegisterInternal") /\ Ok(2, "RegisterSchema")
    /\ Len(schema.Messages) = MaxSchemaLen

\* The signatures of a message: a Duplex message has both of its name.
Signatures(m) ==
    IF m.Direction = DuplexMessage
    THEN {<<InboundMessage, m.Name>>, <<OutboundMessage, m.Name>>}
    ELSE {<<m.Direction, m.Name>>}

SharesSignature(S) ==
    \E i, j \in DOMAIN S.Messages :
        i < j /\ Signatures(S.Messages[i]) \cap Signatures(S.Messages[j]) # {}

\* The k-th call is the first RegisterSchema call that gets past the flags.
FirstSchemaCall(k) ==
    /\ calls[k].op = "RegisterSchema"
    /\ calls[k].err # ErrInternalNotRegistered
    /\ \A j \in 1..(k - 1) :
          calls[j].op = "RegisterSchema" => calls[j].err = ErrInternalNotRegistered

\* C10: RegisterSchema returns an error whenever two messages of the user
\* schema share a signature (direction, name), a Duplex message counting as
\* the inbound and the outbound signature of its name; on a registry holding
\* the internal set only it succeeds when no two user messages share one (an
\* Inbound and an Outbound message of one name are both accepted), and then a
\* Duplex message maps both of its signatures to its ID.
C10_SignatureUniqueness ==
    \A k \in DOMAIN calls :
        /\ (calls[k].op = "RegisterSchema" /\ SharesSignature(schema))
              => calls[k].err # "nil"
        /\ FirstSchemaCall(k)
              => /\ calls[k].err = "nil" <=> ~SharesSignature(schema)
                 /\ calls[k].err = "nil"
                       => \A i \in DOMAIN schema.Messages :
                             \A sg \in Signatures(schema.Messages[i]) :
                                /\ Signature(sg[1], sg[2]) \in DOMAIN reg.UserSignatureMap
                                /\ reg.UserSignatureMap[Signature(sg[1], sg[2])] = 2 + i

\* A schema with a Duplex message behind a message of another name was
\* accepted, and one whose Duplex message meets an Inbound one of its name
\* was refused.
C10_Witness ==
    \E k \in DOMAIN calls :
        /\ FirstSchemaCall(k) /\ calls[k].err = "nil"
        /\ Len(schema.Messages) = 2
        /\ schema.Messages[2].Direction = DuplexMessage
        /\ schema.Messages[1].Direction = InboundMessage

C10_WitnessRefused ==
    \E k \in DOMAIN calls :
        /\ FirstSchemaCall(k) /\ calls[k].err # "nil"
        /\ schema.Messages[1].Direction = DuplexMessage
        /\ schema.Messages[2].Direction = InboundMessage

\* The last call: its operation and error, the registry before (prev) and
\* after (reg) it.
LastCall == calls[Len(calls)]

FlagError(e) == e \in {ErrAlreadyRegistered, ErrInternalNotRegistered}

\* C11: RegisterInternal fails with ErrAlreadyRegistered when the internal or
\* the user set is registered; RegisterSchema fails with ErrAlreadyRegistered
\* when the user set is registered and with ErrInternalNotRegistered when the
\* internal set is not; each of these failures leaves the whole registry
\* (idCounter, descriptors, both signature maps, both flags) as it was, so a
\* repeated RegisterInternal keeps the descriptors 0..2.
C11_GuardedRegistration ==
    calls # <<>> =>
        /\ (LastCall.op = "RegisterInternal"
               /\ (prev.RegisteredInternal \/ prev.RegisteredUser))
              => LastCall.err = ErrAlreadyRegistered
        /\ (LastCall.op = "RegisterSchema" /\ prev.RegisteredUser)
              => LastCall.err = ErrAlreadyRegistered
        /\ (LastCall.op = "RegisterSchema" /\ ~prev.RegisteredUser
               /\ ~prev.RegisteredInternal)
              => LastCall.err = ErrInternalNotRegistered
        /\ FlagError(LastCall.err) => reg = prev
        /\ (LastCall.op = "RegisterInternal" /\ prev.RegisteredInternal)
              => /\ 0..2 \subseteq DOMAIN reg.Descriptors
                 /\ \A id \in 0..2 :
                       reg.Descriptors[id]
                          = MessageDescriptor(id, InternalSchema.Messages[id + 1], TRUE)

\* RegisterSchema was refused before the internal set, and a second
\* RegisterInternal was refused after the first.
C11_Witness ==
    /\ Len(calls) = 3
    /\ calls[1] = [op |-> "RegisterSchema", err |-> ErrInternalNotRegistered]
    /\ Ok(2, "RegisterInternal")
    /\ calls[3] = [op |-> "RegisterInternal", err |-> ErrAlreadyRegistered]
    /\ reg = prev /\ reg.idCounter = 3

\* A user schema was registered, and RegisterSchema was refused after it.
C11_WitnessUser ==
    /\ Len(calls) = 3
    /\ Ok(2, "RegisterSchema")
    /\ calls[3] = [op |-> "RegisterSchema", err |-> ErrAlreadyRegistered]
    /\ Len(schema.Messages) = MaxSchemaLen

\* C12: a RegisterSchema call that fails on a duplicate signature leaves no
\* partial state: the descriptor map, idCounter and the user signature map
\* hold no entry added by the failed call.
C12_NoPartialState ==
    (calls # <<>> /\ LastCall.op = "RegisterSchema"
       /\ LastCall.err # "nil" /\ ~FlagError(LastCall.err))
    => /\ reg.Descriptors = prev.Descriptors
       /\ reg.idCounter = prev.idCounter
       /\ reg.UserSignatureMap = prev.UserSignatureMap

----------------------------------------------------------------------------
(* Properties of the codec (SpecCodec) *)

IntegerTypes == TypeUInt64..TypeInt16

\* The value without the difference between a nil and an empty slice.
RECURSIVE Content(_)
Content(f) ==
    CASE f.kind = "bytes" -> [f EXCEPT !.isnil = FALSE]
      [] f.kind = "list" ->
            [f EXCEPT !.isnil = FALSE, !.items = [i \in DOMAIN f.items |-> Content(f.items[i])]]
      [] f.kind = "struct" ->
            [f EXCEPT !.fields = [i \in DOMAIN f.fields |->
                                     [f.fields[i] EXCEPT !.value = Content(@)]]]
      [] OTHER -> f

\* Every field is required and of a binary type, an integer type, or an
\* array of integers.
PlainDescriptor(d) ==
    \A i \in DOMAIN d.Message.Fields :
        LET field == d.Message.Fields[i]
        IN /\ ~field.Optional
           /\ \/ field.Type \in ScalarTypes
              \/ /\ field.Type = TypeArray
                 /\ field.Extra.kind = "MessageField"
                 /\ field.Extra.field.Type \in IntegerTypes

\* The struct has a field tagged with the name of every field of d.
FullyBound(d, v) ==
    \A i \in DOMAIN d.Message.Fields :
        \E j \in DOMAIN v.fields : v.fields[j].tag = d.Message.Fields[i].Name

\* Every slot for a binary field is a byte slice.
SliceSlots(v) ==
    \A j \in DOMAIN v.fields : v.fields[j].value.kind \notin {"string", "bytearray"}

Encoded == phase \in {"encoded", "decoded", "done"}

\* Decode was given all the bytes Encode returned, and a zero record of the
\* type of the encoded one.
RoundTrip ==
    /\ phase = "decoded" /\ encoded.err = "nil"
    /\ body = encoded.bytes.bytes
    /\ target = ZeroOf(record)

\* C13: for a descriptor of required binary and integer fields and arrays of
\* integers, and a record bound to all of them, the bytes Encode returns are
\* the wire format (little-endian integers of the declared width) and decode
\* to the record: same bytes, same integers, same items in the same order.
\* Encode returns bytes whenever the binary slots are byte slices of a valid
\* length. The bytes of the tests decode without error to the expected values.
C13_RoundTrip ==
    /\ (PlainDescriptor(msgDesc) /\ FullyBound(msgDesc, record) /\ Encoded)
       => /\ encoded.err = "nil"
               => /\ WireEncode(msgDesc, record).ok
                  /\ encoded.bytes.bytes = WireEncode(msgDesc, record).bytes
          /\ (WireEncode(msgDesc, record).ok /\ SliceSlots(record))
               => encoded.err = "nil"
          /\ RoundTrip
               => /\ decoded.res.err = "nil" /\ decoded.res.panic = NoPanic
                  /\ decoded.res.pos = Len(body)
                  /\ Content(decoded.res.value) = Content(record)
    /\ (phase = "decoded" /\ msgDesc = sampleDesc /\ body = sampleBuf
          /\ target = ZeroOf(sampleStruct))
       => /\ decoded.res.err = "nil" /\ decoded.res.panic = NoPanic
          /\ decoded.res.value = sampleStruct

\* The bytes of the tests were returned by Encode and decoded.
C13_Witness ==
    /\ RoundTrip
    /\ msgDesc = sampleDesc /\ body = sampleBuf
    /\ decoded.res.value = sampleStruct

\* A generated record of the largest size with an array went round.
C13_WitnessArray ==
    /\ RoundTrip /\ PlainDescriptor(msgDesc) /\ FullyBound(msgDesc, record)
    /\ Len(record.fields) = MaxFields
    /\ record.fields[MaxFields].value.kind = "list"
    /\ record.fields[1].value.kind = "int"

\* C15: OptionalCorrupted is returned only when the optional counter would
\* pass the bits of the bitmap: with a descriptor whose OptionalCount is the
\* number of its optional fields, neither Encode nor Decode returns it.
C15_OptionalCounter ==
    msgDesc.OptionalCount = CountOptional(msgDesc.Message)
    => /\ Encoded => encoded.err # ErrOptionalCorrupted
       /\ phase = "decoded" => decoded.res.err # ErrOptionalCorrupted

\* The fields of the struct bound to an optional field of d, in the order
\* of the optional fields: whether the slot holds a value to emit.
OptionalFields(d) == SelectSeq(d.Message.Fields, LAMBDA field : field.Optional)

Present(v, name) ==
    \E j \in DOMAIN v.fields : v.fields[j].tag = name /\ ~IsZero(v.fields[j].value)

\* Bit k of a bitmap, bits ascending within a byte, bytes ascending.
Bit(bitmap, k) == BitSet(bitmap[(k \div 8) + 1], k % 8)

\* No field is an array of messages.
NoMessageArray(d) ==
    \A i \in DOMAIN d.Message.Fields :
        d.Message.Fields[i].Type = TypeArray => d.Message.Fields[i].Extra.kind = "MessageField"

\* The record a decoder is to produce from the body of v: the slots without
\* tag keep the zero value.
Tagged(v) ==
    [v EXCEPT !.fields = [j \in DOMAIN v.fields |->
        IF v.fields[j].tag = "" THEN [v.fields[j] EXCEPT !.value = ZeroOf(@)]
        ELSE v.fields[j]]]

\* Decode was given a whole body of the peer and a zero record of the type
\* of the peer's.
WholeWire ==
    /\ phase = "decoded"
    /\ WireEncode(msgDesc, record).ok
    /\ body = WireEncode(msgDesc, record).bytes
    /\ target = ZeroOf(record)

\* C14: in a body Encode returned, the first ceil(OptionalCount / 8) bytes
\* are the bitmap, bit k of it is 1 exactly when the k-th optional field was
\* emitted, and no other bit is set; Decode reads the k-th optional field
\* exactly when bit k is 1, and leaves the slot at its zero value otherwise.
C14_Bitmap ==
    LET opts == OptionalFields(msgDesc)
        n == OptFlagLength(msgDesc)
    IN /\ (Encoded /\ encoded.err = "nil")
          => /\ n = (msgDesc.OptionalCount + 7) \div 8
             /\ Len(encoded.bytes.bytes) >= n
             /\ \A k \in 0..(8 * n - 1) :
                   Bit(encoded.bytes.bytes, k)
                      <=> (k < Len(opts) /\ Present(record, opts[k + 1].Name))
       /\ (WholeWire /\ NoMessageArray(msgDesc))
          => /\ decoded.res.err = "nil" /\ decoded.res.panic = NoPanic
             /\ decoded.res.pos = Len(body)
             /\ Content(decoded.res.value) = Content(Tagged(record))

\* Decode was given a whole body of the peer and a zero record whose type
\* lacks the binding of field i of the peer's record.
UnboundWire(i) ==
    /\ phase = "decoded"
    /\ WireEncode(msgDesc, record).ok
    /\ body = WireEncode(msgDesc, record).bytes
    /\ record.fields[i].tag # ""
    /\ target = Unbind(ZeroOf(record), i)

\* What Decode makes of the body with the full binding.
FullBinding == Decode(NewReader(body, msgDesc), PointerTo(ZeroOf(record)))

\* C16: a body decoded into a record whose binding omits a field name
\* decodes without error whenever it does with the full binding, the cursor
\* ends where it ends with the full binding, and every other slot gets the
\* value it gets with the full binding; this for an omitted field of every
\* type (binary, integer, Object, Array).
C16_UnboundSkipped ==
    \A i \in DOMAIN record.fields :
        (UnboundWire(i) /\ FullBinding.err = "nil" /\ FullBinding.panic = NoPanic)
        => /\ decoded.res.err = "nil" /\ decoded.res.panic = NoPanic
           /\ decoded.res.pos = FullBinding.pos
           /\ \A j \in DOMAIN record.fields \ {i} :
                 decoded.res.value.fields[j] = FullBinding.value.fields[j]

\* Decode was given a proper prefix of a body of the peer and a zero record
\* of the type of the peer's.
TruncatedWire ==
    /\ phase = "decoded"
    /\ WireEncode(msgDesc, record).ok
    /\ decoded.full = WireEncode(msgDesc, record).bytes
    /\ Len(body) < Len(decoded.full)
    /\ target = ZeroOf(record)

\* C17: the cursor of the reader stays within 0..len(buffer); ReadBytes(n)
\* at a cursor pos succeeds exactly when n <= len - pos, returns the n bytes
\* at pos and moves the cursor by n, and otherwise returns ErrOutOfBounds
\* and leaves the cursor; Decode of a body cut short at any position (every
\* byte of a body belongs to the bitmap or to a field that is read) returns
\* ErrOutOfBounds.
C17_CursorBounds ==
    phase = "decoded"
    => /\ decoded.res.pos \in 0..Len(body)
       /\ \A pos \in 0..Len(body) : \A n \in 0..(Len(body) + 1) :
             LET rd == ReadBytes([NewReader(body, msgDesc) EXCEPT !.pos = pos], n)
             IN IF n <= Len(body) - pos
                THEN /\ rd.r.err = "nil" /\ rd.r.pos = pos + n
                     /\ rd.bytes = SubSeq(body, pos + 1, pos + n)
                ELSE rd.r.err = ErrOutOfBounds /\ rd.r.pos = pos
       /\ TruncatedWire => decoded.res.err = ErrOutOfBounds

\* The struct has a field tagged name / the value of that field.
Bound(v, name) == \E j \in DOMAIN v.fields : v.fields[j].tag = name
SlotOf(v, name) ==
    v.fields[CHOOSE j \in DOMAIN v.fields : v.fields[j].tag = name].value

\* The u16 length prefix of a count, little-endian.
Prefix16(n) == <<n % 256, n \div 256>>

\* C18: encoding a byte-slice slot for a FixedBinary field fails with
\* ErrWrongLen when its length differs from the declared one and appends the
\* raw bytes when it is equal; a byte-slice slot for a DynamicBinary field
\* fails with ErrLenTooBig16 above 65535 bytes and otherwise appends the
\* little-endian u16 length and the bytes; a slice slot for an Array field
\* fails with ErrArrLenTooBig above 65535 items and otherwise, unless an
\* item fails, appends the u16 count and the items (65535 int16 items are
\* accepted). Encode returns the error of a required first field, and for a
\* descriptor of one required field exactly what the field appends.
C18_LengthLimits ==
    Encoded =>
    \A i \in DOMAIN msgDesc.Message.Fields :
        LET field == msgDesc.Message.Fields[i]
            f == SlotOf(record, field.Name)
            w == encodeSingle(NewWriter, field, f)
            n == ValueLen(f)
        IN (Bound(record, field.Name)
              /\ \/ field.Type \in {TypeFixedBinary, TypeDynamicBinary} /\ f.kind = "bytes"
                 \/ field.Type = TypeArray /\ f.kind = "list")
           => /\ field.Type = TypeFixedBinary
                 => IF n # field.Extra.n
                    THEN w.err = ErrWrongLen /\ w.buffer = <<>>
                    ELSE ~Failed(w) /\ w.buffer = f.bytes
              /\ field.Type = TypeDynamicBinary
                 => IF n > 65535
                    THEN w.err = ErrLenTooBig16 /\ w.buffer = <<>>
                    ELSE ~Failed(w) /\ w.buffer = Prefix16(n) \o f.bytes
              /\ field.Type = TypeArray
                 => IF n > 65535
                    THEN w.err = ErrArrLenTooBig /\ w.buffer = <<>>
                    ELSE /\ ~Failed(w) => SubSeq(w.buffer, 1, 2) = Prefix16(n)
                         /\ (field.Extra.kind = "MessageField"
                               /\ field.Extra.field.Type = TypeInt16
                               /\ f.elem.kind = "int")
                            => ~Failed(w) /\ Len(w.buffer) = 2 + 2 * n
              /\ (i = 1 /\ ~field.Optional /\ w.err # "nil")
                 => encoded.err = w.err /\ encoded.bytes = NilSlice
              /\ (Len(msgDesc.Message.Fields) = 1 /\ ~field.Optional /\ ~Failed(w))
                 => encoded.err = "nil" /\ encoded.bytes.bytes = w.buffer

\* The descriptor with only its first n fields (the bitmap keeps its size).
FirstFields(d, n) == [d EXCEPT !.Message.Fields = SubSeq(@, 1, n)]

\* The index among the optional fields of d of its field i.
OptionalIndex(d, i) ==
    Cardinality({j \in 1..(i - 1) : d.Message.Fields[j].Optional})

\* The struct with the field tagged name holding the zero value of its type.
\* (For an untagged slot j: the struct with slot j tagged name and zeroed.)
ZeroBound(v, j, name) ==
    [v EXCEPT !.fields[j] = StructField(name, ZeroOf(v.fields[j].value))]

\* C19: Encode of a record without binding for a required field fails, and
\* with ErrRequiredNotPresent when the fields before it encode; an optional
\* field without binding is left out as one whose slot is zero: Encode
\* returns what it returns with the slot bound and zero, and in the bytes it
\* returns the bit of the field is 0 (a descriptor of this one field gives
\* the bitmap alone); a required integer field bound to a zero slot appends
\* its zero bytes, and Encode never answers ErrRequiredNotPresent when every
\* required field is bound.
C19_RequiredNotPresent ==
    Encoded =>
    /\ \A i \in DOMAIN msgDesc.Message.Fields :
          LET field == msgDesc.Message.Fields[i]
              unbound == ~Bound(record, field.Name)
          IN /\ (~field.Optional /\ unbound)
                => /\ encoded.err # "nil" /\ encoded.bytes = NilSlice
                   /\ Encode(FirstFields(msgDesc, i - 1), record).err = "nil"
                        => encoded.err = ErrRequiredNotPresent
             /\ (field.Optional /\ unbound /\ record.fields[i].tag = "")
                => /\ encoded = Encode(msgDesc, ZeroBound(record, i, field.Name))
                   /\ encoded.err = "nil"
                        => ~Bit(encoded.bytes.bytes, OptionalIndex(msgDesc, i))
                   /\ (Len(msgDesc.Message.Fields) = 1 /\ msgDesc.OptionalCount = 1)
                        => encoded.err = "nil" /\ encoded.bytes.bytes = <<0>>
             /\ (~field.Optional /\ ~unbound /\ field.Type \in IntegerTypes
                   /\ IsZero(SlotOf(record, field.Name))
                   /\ SlotOf(record, field.Name).kind
                         = (IF field.Type \in SignedTypes THEN "int" ELSE "uint"))
                => LET w == encodeSingle(NewWriter, field, SlotOf(record, field.Name))
                   IN /\ ~Failed(w) /\ w.buffer = Zeros(WireWidth[field.Type])
                      /\ Len(msgDesc.Message.Fields) = 1
                           => encoded.err = "nil" /\ encoded.bytes.bytes = w.buffer
    /\ (\A i \in DOMAIN msgDesc.Message.Fields :
           msgDesc.Message.Fields[i].Optional \/ Bound(record, msgDesc.Message.Fields[i].Name))
       => encoded.err # ErrRequiredNotPresent

\* Encode refused a record without binding for its second, required field,
\* after a first field with a zero value in its slot.
C19_Witness ==
    /\ Encoded /\ encoded.err = ErrRequiredNotPresent
    /\ Len(msgDesc.Message.Fields) = 2
    /\ ~msgDesc.Message.Fields[1].Optional /\ IsZero(record.fields[1].value)
    /\ record.fields[1].tag # ""
    /\ ~msgDesc.Message.Fields[2].Optional /\ record.fields[2].tag = ""

\* Encode left out an optional field without binding and returned bytes.
C19_WitnessOptional ==
    /\ Encoded /\ encoded.err = "nil"
    /\ \E i \in DOMAIN msgDesc.Message.Fields :
          /\ msgDesc.Message.Fields[i].Optional
          /\ ~Bound(record, msgDesc.Message.Fields[i].Name)
          /\ ~IsZero(record.fields[i].value)

\* Encode returned the zero bytes of a required field.
C19_WitnessZero ==
    /\ Encoded /\ encoded.err = "nil" /\ encoded.bytes.bytes = <<0, 0, 0, 0>>
    /\ ~msgDesc.Message.Fields[1].Optional

\* What the writer of Encode holds when encodeStruct ends.
Written == encodeStruct(NewWriter, msgDesc, record)

\* C20: Encode returns either bytes (not nil) with a nil error, or nil bytes
\* with an error, never both and never neither. When encodeStruct ends with
\* an error or a panic, whatever the buffer holds by then, the bytes are nil
\* and the error is that error, or "panic: ..." for a recovered panic; when
\* it ends without, the bytes are the buffer. A value that is no struct
\* gives nil bytes and ErrInvalidResultPointer.
C20_BytesOrError ==
    Encoded =>
    /\ \/ encoded.err = "nil" /\ ~encoded.bytes.isnil
       \/ encoded.err # "nil" /\ encoded.bytes = NilSlice
    /\ Written.panic # NoPanic
       => /\ encoded.bytes = NilSlice
          /\ encoded.err = "panic: " \o
               (IF Written.panic \in {PanicValueError, PanicTypeAssertion, PanicIndex}
                THEN "a panic occured" ELSE Written.panic)
    /\ (Written.panic = NoPanic /\ Written.err # "nil")
       => encoded.bytes = NilSlice /\ encoded.err = Written.err
    /\ ~Failed(Written)
       => encoded.err = "nil" /\ encoded.bytes.bytes = Written.buffer
    /\ \A j \in DOMAIN record.fields :
          record.fields[j].value.kind # "struct"
          => Encode(msgDesc, record.fields[j].value)
               = [bytes |-> NilSlice, err |-> ErrInvalidResultPointer]

\* Encode hit a panic reading the slot of the second field, after the bytes
\* of the first were in the buffer, and returned the error alone.
C20_Witness ==
    /\ Encoded /\ Written.panic # NoPanic
    /\ Written.buffer # <<>>
    /\ encoded.bytes = NilSlice /\ encoded.err = "panic: a panic occured"

\* Encode stopped at an error with bytes in the buffer.
C20_WitnessError ==
    /\ Encoded /\ Written.err = ErrWrongLen
    /\ Written.buffer # <<>>
    /\ encoded.bytes = NilSlice

----------------------------------------------------------------------------
(* Properties of the cache of field maps (SpecCache) *)

\* Goroutine g is back from a call of computeFieldMap.
Back(g) == routine[g].pc = "idle" /\ routine[g].uses > 0

\* Every call that returned a map returned the map the cache holds for its
\* type, and the cache holds for a type the map of the tags of that type.
SameStoredMap ==
    /\ \A g \in Routines :
          (Back(g) /\ routine[g].ret.err = "nil")
          => /\ typeCache[routine[g].t] # NoEntry
             /\ routine[g].ret.fMap = typeCache[routine[g].t]
    /\ \A t \in CacheTypes :
          typeCache[t] # NoEntry
          => computeFieldMap(t).err = "nil" /\ typeCache[t].m = computeFieldMap(t).m

\* An entry of the cache is not replaced and not removed.
EntryKept ==
    \A t \in CacheTypes : typeCache[t] # NoEntry => typeCache'[t] = typeCache[t]

\* C21: however the first uses of a struct type by several goroutines
\* interleave, the cache holds one map for the type, every call (the one
\* that stored and the ones that lost the insert) returns that stored map,
\* and an entry once stored is never replaced or removed.
C21_SingleMap == []SameStoredMap /\ [][EntryKept]_vars

\* Two goroutines missed the cache for the same type and computed a map
\* each; the second lost the insert, dropped its map and returned the first's.
C21_Witness ==
    /\ Back(1) /\ Back(2)
    /\ routine[1].t = TypeAB /\ routine[2].t = TypeAB
    /\ routine[1].fMap # NilMap /\ routine[2].fMap # NilMap
    /\ routine[1].fMap # routine[2].fMap
    /\ typeCache[TypeAB] = routine[1].fMap
    /\ routine[1].ret.fMap = routine[1].fMap
    /\ routine[2].ret.fMap = routine[1].fMap

\* Two fields of the struct type carry the same tag.
DuplicateTag(t) ==
    \E i, j \in DOMAIN t.fields :
        i # j /\ t.fields[i].tag # "" /\ t.fields[i].tag = t.fields[j].tag

\* A descriptor with a field for the tag "a".
DescriptorA ==
    MessageDescriptor(0,
        SchemaMessage(InboundMessage, "m", <<MessageField("a", TypeInt16, NilExtra, FALSE)>>),
        FALSE)

\* C22: for a struct type with two fields of the same tag, every call of
\* computeFieldMap, the first and the later ones of every goroutine, returns
\* the error "duplicate struct tag" and no map; no entry is ever stored for
\* the type, so a later call computes and fails again; Encode of a value of
\* the type and Decode into one return that error.
C22_DuplicatePermanent ==
    \A t \in CacheTypes :
        DuplicateTag(t)
        => /\ typeCache[t] = NoEntry
           /\ \A g \in Routines :
                 (Back(g) /\ routine[g].t = t)
                 => /\ routine[g].ret.err = "duplicate struct tag: a"
                    /\ routine[g].ret.fMap = NilMap
                    /\ Encode(DescriptorA, t)
                         = [bytes |-> NilSlice, err |-> routine[g].ret.err]
                    /\ Decode(NewReader(<<1, 0>>, DescriptorA), PointerTo(t)).err
                         = routine[g].ret.err

\* A goroutine got the error at its second use of the type, after another
\* goroutine had got it.
C22_Witness ==
    /\ Back(1) /\ routine[1].t = TypeAA /\ routine[1].uses = 2
    /\ routine[1].ret.err = "duplicate struct tag: a"
    /\ Back(2) /\ routine[2].t = TypeAA
    /\ routine[2].ret.err = "duplicate struct tag: a"

----------------------------------------------------------------------------
(* Properties of nested bodies (SpecCodec) *)

\* A field of the descriptor is an Object, or an Array whose item descriptor
\* is a schema.SchemaMessage (the representation the encoder takes), and no
\* Array has another representation of a message as item descriptor.
NestedBodies(d) ==
    /\ \E i \in DOMAIN d.Message.Fields :
          \/ d.Message.Fields[i].Type = TypeObject
          \/ /\ d.Message.Fields[i].Type = TypeArray
             /\ d.Message.Fields[i].Extra.kind = "SchemaMessage"
    /\ \A i \in DOMAIN d.Message.Fields :
          d.Message.Fields[i].Type = TypeArray
          => d.Message.Fields[i].Extra.kind \in {"MessageField", "SchemaMessage"}

\* C23: the bytes Encode returns for a message with an Object field, or an
\* Array of messages, are the outer bitmap and then the fields in declared
\* order, the nested body (its bitmap, then its fields) standing where the
\* field stands: the bytes written for earlier fields are all there and the
\* nested bitmap is written behind them.
C23_NestedBody ==
    (Encoded /\ NestedBodies(msgDesc) /\ encoded.err = "nil"
       /\ WireEncode(msgDesc, record).ok)
    => encoded.bytes.bytes = WireEncode(msgDesc, record).bytes

\* The descriptor is one Array field whose item descriptor is a message,
\* given as a schema.SchemaMessage or as a schema.MessageDescriptor.
MessageArray(d) ==
    /\ Len(d.Message.Fields) = 1
    /\ d.Message.Fields[1].Type = TypeArray
    /\ d.Message.Fields[1].Extra.kind \in {"SchemaMessage", "MessageDescriptor"}

\* C24: for an Array field whose items are messages, whichever way the item
\* descriptor is given, Encode returns the u16 count and the bodies of the
\* items, Decode of the count and the bodies of the items reads them all
\* into the slot, and Decode of the bytes Encode returned gives the record.
C24_MessageArray ==
    (MessageArray(msgDesc) /\ FullyBound(msgDesc, record)
       /\ WireEncode(msgDesc, record).ok)
    => /\ Encoded
          => /\ encoded.err = "nil"
             /\ encoded.bytes.bytes = WireEncode(msgDesc, record).bytes
       /\ WholeWire
          => /\ decoded.res.err = "nil" /\ decoded.res.panic = NoPanic
             /\ decoded.res.pos = Len(body)
             /\ Content(decoded.res.value) = Content(record)
       /\ RoundTrip
          => /\ decoded.res.err = "nil" /\ decoded.res.panic = NoPanic
             /\ Content(decoded.res.value) = Content(record)

\* The least number of bytes a field of the type takes on the wire.
WireMinimum(field) ==
    CASE field.Type = TypeFixedBinary -> field.Extra.n
      [] field.Type = TypeDynamicBinary -> 2
      [] field.Type = TypeLongBinary -> 4
      [] field.Type \in {TypeUInt64, TypeInt64} -> 8
      [] field.Type \in {TypeUInt32, TypeInt32} -> 4
      [] field.Type \in {TypeUInt16, TypeInt16} -> 2
      [] field.Type = TypeArray -> 2

\* The fields of the descriptor and the item fields of its arrays.
FieldsAndItems(d) ==
    {d.Message.Fields[i] : i \in DOMAIN d.Message.Fields}
    \cup {d.Message.Fields[i].Extra.field :
            i \in {j \in DOMAIN d.Message.Fields :
                     /\ d.Message.Fields[j].Type = TypeArray
                     /\ d.Message.Fields[j].Extra.kind = "MessageField"}}

\* Decode was given a body whose first field is an array of K integers or
\* binaries, with fewer bytes behind the count than K items take at least.
ShortArray ==
    /\ phase = "decoded"
    /\ msgDesc.OptionalCount = 0
    /\ msgDesc.Message.Fields # <<>>
    /\ msgDesc.Message.Fields[1].Type = TypeArray
    /\ msgDesc.Message.Fields[1].Extra.kind = "MessageField"
    /\ msgDesc.Message.Fields[1].Extra.field.Type \in ScalarTypes
    /\ target.fields[1].tag = msgDesc.Message.Fields[1].Name
    /\ Len(body) >= 2
    /\ Uint16(body) * WireMinimum(msgDesc.Message.Fields[1].Extra.field) > Len(body) - 2

\* C25: GetFixedSize returns N for FixedBinary[N], 2 for DynamicBinary, 4
\* for LongBinary, 8 for UInt64 and Int64, 4 for UInt32 and Int32, 2 for
\* UInt16 and Int16, 2 for Array; and Decode of an array whose count of
\* items of that size does not fit in the rest of the buffer returns
\* ErrOutOfBounds from the check before the slice is made: the slot is left
\* as it was.
C25_FixedSize ==
    /\ \A field \in FieldsAndItems(msgDesc) :
          field.Type \in (ScalarTypes \cup {TypeArray})
          => GetFixedSize(field.Type, field.Extra) = [n |-> WireMinimum(field), panic |-> NoPanic]
    /\ ShortArray
       => /\ decoded.res.err = ErrOutOfBounds
          /\ decoded.res.value.fields[1] = target.fields[1]

----------------------------------------------------------------------------
(* Properties of the three decoders (SpecCodec) *)

\* A field type tag no decoder has a case for: the one after the last.
UnknownType == TypeArray + 1

\* The descriptor is one required field and the target is bound to it.
OneField ==
    /\ Len(msgDesc.Message.Fields) = 1
    /\ msgDesc.OptionalCount = 0
    /\ target.kind = "struct" /\ Len(target.fields) = 1
    /\ target.fields[1].tag = msgDesc.Message.Fields[1].Name

\* Decode of part_002 returns the error of the field that failed.
ReturnsFieldError ==
    phase = "decoded"
    => /\ OneField
          => decoded.res.err
               = decodeSingle(NewReader(body, msgDesc), msgDesc.Message.Fields[1],
                              target.fields[1].value).r.err
       /\ \A i \in DOMAIN msgDesc.Message.Fields :
             LET d == [msgDesc EXCEPT !.Message.Fields[i].Type = UnknownType,
                                      !.Message.Fields[i].Optional = FALSE]
                 before == Decode(NewReader(body, FirstFields(msgDesc, i - 1)), PointerTo(target))
             IN (before.err = "nil" /\ before.panic = NoPanic)
                => Decode(NewReader(body, d), PointerTo(target)).err = ErrTypeCorrupted

\* Decode of src/encoder and of src/exp/encoder returns the error of the
\* first field that failed: OutOfBounds for a read past the buffer,
\* TypeCorrupted for a type without a case.
ReturnsFieldErrorOf(pkg) ==
    phase = "decoded by " \o pkg
    => /\ decoded.res.dropped # <<>> => decoded.res.err = decoded.res.dropped[1]
       /\ (OneField /\ decoded.res.panic = NoPanic)
          => decoded.res.err
               = decodeSingleOf(pkg, NewReader(body, msgDesc), msgDesc.Message.Fields[1],
                                target.fields[1].value).r.err

\* C26: in each of the three decoders, Decode returns the error of the
\* first field whose decoding fails, TypeCorrupted for a field of a type the
\* decoder has no case for and OutOfBounds for a read past the end of the
\* buffer, and does not return nil after a field failed.
C26_FieldErrors ==
    /\ ReturnsFieldError
    /\ ReturnsFieldErrorOf(PkgEncoder)
    /\ ReturnsFieldErrorOf(PkgExp)

\* C27: the body of the test for the outbound Hello message (minVersion,
\* currVersion, then the schema as a u16 count and the messageDescriptor
\* records) decodes without error with the descriptor the registry holds at
\* ID 1 after RegisterInternal.
C27_HelloOutbound ==
    phase = "tested"
    => /\ msgDesc.ID = 1 /\ msgDesc.Internal
       /\ msgDesc.Message.Name = "Hello" /\ msgDesc.Message.Direction = OutboundMessage
       /\ decoded.res.err = "nil" /\ decoded.res.panic = NoPanic

----------------------------------------------------------------------------
(* Properties of the registry after any calls (SpecRegistry) *)

\* The values of a signature map.
Range(signatureMap) == {signatureMap[s] : s \in DOMAIN signatureMap}

\* The k-th call failed inside its loop, on a signature that was taken.
FailedOnSignature(k) ==
    calls[k].err \notin {"nil", ErrAlreadyRegistered, ErrInternalNotRegistered}

\* C28: after any sequence of RegisterInternal and RegisterSchema calls,
\* successful or failing, idCounter equals the number of descriptors, the
\* descriptor keys are exactly 0..idCounter-1, each descriptor's ID equals
\* its key, every value of either signature map is an existing descriptor
\* key, and RegisteredUser is true only if RegisteredInternal is true.
C28_RegistryInvariants ==
    /\ reg.idCounter = Cardinality(DOMAIN reg.Descriptors)
    /\ DOMAIN reg.Descriptors = 0..(reg.idCounter - 1)
    /\ \A id \in DOMAIN reg.Descriptors : reg.Descriptors[id].ID = id
    /\ Range(reg.UserSignatureMap) \subseteq DOMAIN reg.Descriptors
    /\ Range(reg.InternalSignatureMap) \subseteq DOMAIN reg.Descriptors
    /\ reg.RegisteredUser => reg.RegisteredInternal

\* Every call was made, two of them failed on a taken signature, and the
\* registry holds the descriptors the failing calls left behind.
C28_Witness ==
    /\ Len(calls) = MaxCalls
    /\ \E j, k \in 1..Len(calls) : j < k /\ FailedOnSignature(j) /\ FailedOnSignature(k)
    /\ reg.idCounter > Len(InternalSchema.Messages) + 1
    /\ reg.UserSignatureMap # EmptyMap
    /\ ~reg.RegisteredUser

----------------------------------------------------------------------------
(* Properties of internal frames before the handshake (Spec) *)

\* The descriptor of ID id is the internal duplex Ping.
IsPing(id) ==
    /\ Known(id)
    /\ reg.Descriptors[id].Internal
    /\ IsMessage(reg.Descriptors[id], DuplexMessage, "Ping")

\* The i-th call met a Ping frame that passed the size check, in WaitHello.
PingInWaitHello(i) ==
    Sized(i) /\ log[i].st = ConnWaitHello /\ IsPing(log[i].id)

\* C29: a Ping frame (ID 2, internal, duplex) that arrives on a connection
\* still in WaitHello and passes the size check is no protocol violation:
\* nextMessage goes past the direction guard and the WaitHello guard and
\* returns nil, the connection is not closed by it, its state is still
\* WaitHello, and the next header is read right after the frame; at no size
\* is a Ping frame answered with the invalid-descriptor or the
\* invalid-direction error.
C29_PingBeforeHello ==
    /\ \A i \in DOMAIN log :
          PingInWaitHello(i)
          => /\ log[i].kind \in {"discard", "payload"}
             /\ state = ConnWaitHello
             /\ (Returned(i) /\ ~log[i].handled)
                => /\ log[i].err = "nil"
                   /\ IF i = Len(log)
                      THEN pc = "header" /\ ~closed /\ err = "nil"
                           /\ rpos = log[i].off + 8 + log[i].body
                      ELSE /\ log[i + 1].st = ConnWaitHello
                           /\ log[i + 1].off = log[i].off + 8 + log[i].body
    /\ \A i \in DOMAIN log :
          (log[i].ok /\ IsPing(log[i].id))
          => log[i].err \notin {ErrInvalidDescriptor, ErrSentInvalidDirection}
    /\ \A len \in 0..MaxMessageSize, id \in DOMAIN reg.Descriptors :
          IsPing(id)
          => /\ id = Len(InternalSchema.Messages) - 1
             /\ checkHeader(ConnWaitHello, [PacketLength |-> len, MessageType |-> id])
                  \in {[kind |-> "discard", err |-> "nil", out |-> <<>>],
                       [kind |-> "payload", err |-> "nil", out |-> <<>>]}

\* The first message processed on the connection was a Ping with its body,
\* and the header of a second frame was read after it: inbound Hello was not
\* the first message.
C29_Witness ==
    /\ Len(log) >= 2
    /\ PingInWaitHello(1) /\ log[1].len > 0 /\ log[1].body = log[1].len
    /\ log[2].ok /\ log[2].st = ConnWaitHello
    /\ log[2].off = 8 + log[1].len

====
